---------------------------- MODULE Spec2Model ----------------------------
(***************************************************************************)
(* GalaxEye access-window parser and derived-metrics engine.               *)
(*                                                                         *)
(* Python floats are modelled as exact rationals [num, den] in lowest      *)
(* terms with den > 0; float('inf') is [num |-> 1, den |-> 0].  Time is    *)
(* measured in seconds from 2026-01-01 00:00:00 UTC, the scenario epoch of *)
(* the source, so an instant before the epoch is negative.                 *)
(***************************************************************************)
EXTENDS Integers, Sequences, FiniteSets, TLC

VARIABLES
    series_a,      \* first event list handed to a metric function
    series_b,      \* second event list (optical passes / ground-station passes)
    op,            \* name of the metric function called last, "none" before any call
    result,        \* <<value>> returned by that call, <<>> before any call
    tz_offset,     \* UTC offset (seconds) of the machine running the parser
    rows,          \* rows of the file being parsed, as csv.reader yields them
    row_num,       \* number of rows of the file consumed so far
    passes,        \* the parser's list of emitted events
    satellite_id,  \* the parser's running block counter
    pc,            \* parser position: "idle", "scan" or "returned"
    emit_rows,     \* history: the row number at which each event of passes was emitted
    family,        \* which parsing script runs: "stk", "ports", "eez_sar", "ship_eez";
                   \* "none" outside a batch
    csv_files,     \* sorted(DATA_DIR.glob(...)): the names of the files of the batch
    file_num,      \* number of files of csv_files the loop of main() has consumed
    results,       \* the Result Store: <<target, sensor, constellation>> -> event list
    reported,      \* names of the files for which a SKIP line was printed
    stage,         \* position of the batch: "idle", "parsing", "aborted", "no_files",
                   \* "saved", "metrics_done", "metrics_failed"
    saved_json,    \* <<document>> once json.dump has written the interchange file
    metric_rows,   \* rows of the metric tables, once the metrics stage has completed
    bucket_file,   \* history: the file whose events each bucket of results holds
    totals,        \* the running counters of main(): processed, total_passes, total_duration
    summary,       \* <<the counts of the closing summary>> once main() has printed it
    parse_log,     \* history: one entry per call of parse_stk_csv made by main()
    pipeline_step, \* position of run_analysis_pipeline: "idle", "start", the name of the
                   \* stage completed last, or "returned"
    pipeline_results,  \* the results dict of run_analysis_pipeline
    stages_run     \* history: the stages run_analysis_pipeline has entered, in order

vars == <<series_a, series_b, op, result, tz_offset, rows, row_num, passes,
          satellite_id, pc, emit_rows, family, csv_files, file_num, results,
          reported, stage, saved_json, metric_rows, bucket_file, totals, summary,
          parse_log, pipeline_step, pipeline_results, stages_run>>

batch_vars ==
    <<family, csv_files, file_num, results, reported, stage, saved_json, metric_rows,
      bucket_file, totals, summary, parse_log>>

pipeline_vars ==
    <<pipeline_step, pipeline_results, stages_run>>

parser_vars ==
    <<tz_offset, rows, row_num, passes, satellite_id, pc, emit_rows>>

---------------------------------------------------------------------------
(* Bounds of the model *)

MaxTick == 3        \* instants are (k - 1) * 50 s for k in 0..MaxTick
MaxPasses == 3      \* longest single event list
MaxPair == 2        \* longest list of each of two paired event lists
MaxRows == 3        \* longest file, in rows
LongPass == 43200   \* length (s) of the longest pass, half the 24 h period

---------------------------------------------------------------------------
(* Float arithmetic *)

Abs(x) == IF x < 0 THEN -x ELSE x

RECURSIVE GCD(_, _)
GCD(a, b) == IF b = 0 THEN a ELSE GCD(b, a % b)

Inf == [num |-> 1, den |-> 0]

Rat(n, d) ==
    IF d = 0 THEN Inf
    ELSE LET g == GCD(Abs(n), Abs(d))
             s == IF d < 0 THEN -1 ELSE 1
         IN  [num |-> (s * n) \div g, den |-> (s * d) \div g]

R(n) == [num |-> n, den |-> 1]

IsInf(a) == a.den = 0

RAdd(a, b) ==
    IF IsInf(a) \/ IsInf(b) THEN Inf
    ELSE Rat(a.num * b.den + b.num * a.den, a.den * b.den)

RSub(a, b) ==
    IF IsInf(a) THEN Inf
    ELSE Rat(a.num * b.den - b.num * a.den, a.den * b.den)

RMul(a, b) ==
    IF IsInf(a) \/ IsInf(b) THEN Inf
    ELSE Rat(a.num * b.num, a.den * b.den)

RDiv(a, b) ==
    IF IsInf(a) THEN Inf
    ELSE Rat(a.num * b.den, a.den * b.num)

RLt(a, b) == a.num * b.den < b.num * a.den
RLe(a, b) == ~RLt(b, a)

\* Python's max(a, b) and min(a, b): the first argument wins a tie.
RMax(a, b) == IF RLt(a, b) THEN b ELSE a
RMin(a, b) == IF RLt(b, a) THEN b ELSE a

RECURSIVE RSum(_)
RSum(s) == IF s = <<>> THEN R(0) ELSE RAdd(RSum(Tail(s)), Head(s))

RECURSIVE RMinSeq(_)
RMinSeq(s) == IF Len(s) = 1 THEN s[1] ELSE RMin(s[1], RMinSeq(Tail(s)))

RECURSIVE RMaxSeq(_)
RMaxSeq(s) == IF Len(s) = 1 THEN s[1] ELSE RMax(s[1], RMaxSeq(Tail(s)))

\* sorted(values): stable insertion sort of a list of floats
RECURSIVE RSorted(_)
RSorted(s) ==
    IF s = <<>> THEN <<>>
    ELSE LET n == Len(s)
             h == RSorted(SubSeq(s, 1, n - 1))
             k == Cardinality({i \in 1..Len(h) : RLe(h[i], s[n])})
         IN  SubSeq(h, 1, k) \o <<s[n]>> \o SubSeq(h, k + 1, Len(h))

\* numpy.mean and numpy.median of a non-empty list
np_mean(s) == RDiv(RSum(s), R(Len(s)))

np_median(s) ==
    LET t == RSorted(s)
        n == Len(t)
    IN  IF n % 2 = 1 THEN t[(n + 1) \div 2]
        ELSE RDiv(RAdd(t[n \div 2], t[n \div 2 + 1]), R(2))

\* sorted(passes, key=lambda p: p[key]): stable, ascending
RECURSIVE sorted(_, _)
sorted(ps, key) ==
    IF ps = <<>> THEN <<>>
    ELSE LET n == Len(ps)
             h == sorted(SubSeq(ps, 1, n - 1), key)
             k == Cardinality({i \in 1..Len(h) : RLe(h[i][key], ps[n][key])})
         IN  SubSeq(h, 1, k) \o <<ps[n]>> \o SubSeq(h, k + 1, Len(h))

\* min(passes, key=lambda p: p[key]): the first element with the least key
RECURSIVE min_by(_, _)
min_by(ps, key) ==
    IF Len(ps) = 1 THEN ps[1]
    ELSE LET m == min_by(Tail(ps), key)
         IN  IF RLt(m[key], ps[1][key]) THEN m ELSE ps[1]

---------------------------------------------------------------------------
(* compute_metrics.py *)

SCENARIO_START == 0

\* a variant that reports the distance of the first pass from the epoch
compute_detection_latency_distance(ps) ==
    IF ps = <<>> THEN Inf
    ELSE LET first_pass == min_by(ps, "unix_start")
             latency == RSub(first_pass.unix_start, R(SCENARIO_START))
         IN  IF RLt(latency, R(0)) THEN RSub(R(0), latency) ELSE latency

compute_detection_latency(ps) ==
    IF ps = <<>> THEN Inf
    ELSE LET first_pass == min_by(ps, "unix_start")
         IN  RSub(first_pass.unix_start, R(SCENARIO_START))

\* the list `gaps` built by the loop of compute_revisit_times, in seconds
RECURSIVE revisit_gaps(_, _)
revisit_gaps(sorted_passes, i) ==
    IF i > Len(sorted_passes) - 1 THEN <<>>
    ELSE LET gap == RSub(sorted_passes[i + 1].unix_start, sorted_passes[i].unix_stop)
         IN  (IF RLt(R(0), gap) THEN <<gap>> ELSE <<>>)
                 \o revisit_gaps(sorted_passes, i + 1)

compute_revisit_times(ps) ==
    IF Len(ps) < 2
    THEN [min |-> Inf, mean |-> Inf, max |-> R(0), median |-> Inf]
    ELSE LET sorted_passes == sorted(ps, "unix_start")
             gaps == revisit_gaps(sorted_passes, 1)
         IN  IF gaps = <<>>
             THEN [min |-> R(0), mean |-> R(0), max |-> R(0), median |-> R(0)]
             ELSE [min |-> RMinSeq(gaps), mean |-> np_mean(gaps),
                   max |-> RMaxSeq(gaps), median |-> np_median(gaps),
                   count |-> Len(gaps)]

\* a variant that keeps the degenerate overlap of two passes that only touch
RECURSIVE fusion_overlaps_touching(_, _, _, _)
fusion_overlaps_touching(sar_sorted, opt_sorted, i, j) ==
    IF i > Len(sar_sorted) THEN <<>>
    ELSE IF j > Len(opt_sorted)
    THEN fusion_overlaps_touching(sar_sorted, opt_sorted, i + 1, 1)
    ELSE LET sar == sar_sorted[i]
             opt == opt_sorted[j]
             overlap_start == RMax(sar.unix_start, opt.unix_start)
             overlap_end == RMin(sar.unix_stop, opt.unix_stop)
         IN  (IF RLe(overlap_start, overlap_end)
              THEN <<RSub(overlap_end, overlap_start)>> ELSE <<>>)
                 \o fusion_overlaps_touching(sar_sorted, opt_sorted, i, j + 1)

\* a variant that keeps an overlap only when the SAR pass is the first to start
RECURSIVE fusion_overlaps_sar_first(_, _, _, _)
fusion_overlaps_sar_first(sar_sorted, opt_sorted, i, j) ==
    IF i > Len(sar_sorted) THEN <<>>
    ELSE IF j > Len(opt_sorted)
    THEN fusion_overlaps_sar_first(sar_sorted, opt_sorted, i + 1, 1)
    ELSE LET sar == sar_sorted[i]
             opt == opt_sorted[j]
             overlap_end == RMin(sar.unix_stop, opt.unix_stop)
         IN  (IF RLe(sar.unix_start, opt.unix_start) /\ RLt(opt.unix_start, overlap_end)
              THEN <<RSub(overlap_end, opt.unix_start)>> ELSE <<>>)
                 \o fusion_overlaps_sar_first(sar_sorted, opt_sorted, i, j + 1)

\* the list `overlaps` built by the nested loop of compute_fusion_windows
RECURSIVE fusion_overlaps(_, _, _, _)
fusion_overlaps(sar_sorted, opt_sorted, i, j) ==
    IF i > Len(sar_sorted) THEN <<>>
    ELSE IF j > Len(opt_sorted) THEN fusion_overlaps(sar_sorted, opt_sorted, i + 1, 1)
    ELSE LET sar == sar_sorted[i]
             opt == opt_sorted[j]
             overlap_start == RMax(sar.unix_start, opt.unix_start)
             overlap_end == RMin(sar.unix_stop, opt.unix_stop)
         IN  (IF RLt(overlap_start, overlap_end)
              THEN <<RSub(overlap_end, overlap_start)>> ELSE <<>>)
                 \o fusion_overlaps(sar_sorted, opt_sorted, i, j + 1)

compute_fusion_windows(sar_passes, optical_passes) ==
    IF sar_passes = <<>> \/ optical_passes = <<>>
    THEN [count |-> 0, total_duration |-> R(0), mean_duration |-> R(0),
          max_duration |-> R(0)]
    ELSE LET overlaps == fusion_overlaps(sorted(sar_passes, "unix_start"),
                                         sorted(optical_passes, "unix_start"), 1, 1)
         IN  IF overlaps = <<>>
             THEN [count |-> 0, total_duration |-> R(0), mean_duration |-> R(0),
                   max_duration |-> R(0)]
             ELSE [count |-> Len(overlaps), total_duration |-> RSum(overlaps),
                   mean_duration |-> np_mean(overlaps),
                   max_duration |-> RMaxSeq(overlaps)]

\* a variant that misses a ground-station pass starting exactly when the ship
\* pass ends
\* a variant that takes the earliest ground-station pass whenever it starts
RECURSIVE delivery_latencies_any_relay(_, _, _)
delivery_latencies_any_relay(ship_sorted, gs_sorted, i) ==
    IF i > Len(ship_sorted) THEN <<>>
    ELSE LET ship_end == ship_sorted[i].unix_stop
         IN  (IF gs_sorted # <<>>
              THEN <<RSub(min_by(gs_sorted, "unix_start").unix_start, ship_end)>>
              ELSE <<>>)
                 \o delivery_latencies_any_relay(ship_sorted, gs_sorted, i + 1)

RECURSIVE delivery_latencies_strict(_, _, _)
delivery_latencies_strict(ship_sorted, gs_sorted, i) ==
    IF i > Len(ship_sorted) THEN <<>>
    ELSE LET ship_end == ship_sorted[i].unix_stop
             candidates == SelectSeq(gs_sorted, LAMBDA gs : RLt(ship_end, gs.unix_start))
         IN  (IF candidates # <<>>
              THEN <<RSub(min_by(candidates, "unix_start").unix_start, ship_end)>>
              ELSE <<>>)
                 \o delivery_latencies_strict(ship_sorted, gs_sorted, i + 1)

\* the list `latencies` built by the loop of compute_delivery_latency
RECURSIVE delivery_latencies(_, _, _)
delivery_latencies(ship_sorted, gs_sorted, i) ==
    IF i > Len(ship_sorted) THEN <<>>
    ELSE LET ship_end == ship_sorted[i].unix_stop
             candidates == SelectSeq(gs_sorted, LAMBDA gs : RLe(ship_end, gs.unix_start))
         IN  (IF candidates # <<>>
              THEN <<RSub(min_by(candidates, "unix_start").unix_start, ship_end)>>
              ELSE <<>>)
                 \o delivery_latencies(ship_sorted, gs_sorted, i + 1)

compute_delivery_latency(ship_passes, gs_passes) ==
    IF ship_passes = <<>> \/ gs_passes = <<>>
    THEN [min |-> Inf, mean |-> Inf, max |-> Inf]
    ELSE LET latencies == delivery_latencies(sorted(ship_passes, "unix_stop"),
                                             sorted(gs_passes, "unix_start"), 1)
         IN  IF latencies = <<>>
             THEN [min |-> Inf, mean |-> Inf, max |-> Inf]
             ELSE [min |-> RMinSeq(latencies), mean |-> np_mean(latencies),
                   max |-> RMaxSeq(latencies), count |-> Len(latencies)]

---------------------------------------------------------------------------
(* compute_eez_metrics.py *)

eez_compute_detection_latency(ps) ==
    IF ps = <<>> THEN Inf
    ELSE LET first == min_by(ps, "unix_start")
             latency_sec == RSub(first.unix_start, R(SCENARIO_START))
         IN  RMax(R(0), RDiv(latency_sec, R(60)))

\* the list `gaps` built by the loop of the EEZ compute_revisit_times, in minutes
RECURSIVE eez_revisit_gaps(_, _)
eez_revisit_gaps(sorted_passes, i) ==
    IF i > Len(sorted_passes) - 1 THEN <<>>
    ELSE LET gap == RSub(sorted_passes[i + 1].unix_start, sorted_passes[i].unix_stop)
         IN  (IF RLt(R(0), gap) THEN <<RDiv(gap, R(60))>> ELSE <<>>)
                 \o eez_revisit_gaps(sorted_passes, i + 1)

eez_compute_revisit_times(ps) ==
    IF Len(ps) < 2
    THEN [min |-> Inf, mean |-> Inf, max |-> R(0), median |-> Inf, count |-> 0]
    ELSE LET sorted_passes == sorted(ps, "unix_start")
             gaps == eez_revisit_gaps(sorted_passes, 1)
         IN  IF gaps = <<>>
             THEN [min |-> R(0), mean |-> R(0), max |-> R(0), median |-> R(0),
                   count |-> 0]
             ELSE [min |-> RMinSeq(gaps), mean |-> np_mean(gaps),
                   max |-> RMaxSeq(gaps), median |-> np_median(gaps),
                   count |-> Len(gaps)]

\* sum(p['duration_sec'] for p in passes)
RECURSIVE sum_duration_sec(_)
sum_duration_sec(ps) ==
    IF ps = <<>> THEN R(0)
    ELSE RAdd(sum_duration_sec(SubSeq(ps, 1, Len(ps) - 1)), ps[Len(ps)].duration_sec)

compute_total_access_time(ps) ==
    IF ps = <<>> THEN R(0)
    ELSE LET total_sec == sum_duration_sec(ps)
         IN  RDiv(total_sec, R(60))

\* a variant that caps the percentage at 100
compute_coverage_percent_capped(ps) ==
    LET total_min == compute_total_access_time(ps)
        total_24h_min == 24 * 60
    IN  RMin(RMul(RDiv(total_min, R(total_24h_min)), R(100)), R(100))

compute_coverage_percent(ps) ==
    LET total_min == compute_total_access_time(ps)
        total_24h_min == 24 * 60
    IN  RMul(RDiv(total_min, R(total_24h_min)), R(100))

---------------------------------------------------------------------------
(* port_dashboard.py: the body of compute_port_metrics for one bucket; an  *)
(* empty bucket appends no row.                                            *)

compute_port_metrics(ps) ==
    IF ps = <<>> THEN <<>>
    ELSE LET total_passes == Len(ps)
             total_duration == sum_duration_sec(ps)
             gaps == eez_revisit_gaps(sorted(ps, "unix_start"), 1)
         IN  <<[Passes |-> total_passes,
                Total_Duration_sec |-> total_duration,
                Avg_Pass_Duration_sec |-> RDiv(total_duration, R(total_passes)),
                Coverage_Percent |-> RMul(RDiv(total_duration, R(24 * 3600)), R(100)),
                Mean_Revisit_min |->
                    IF total_passes > 1
                    THEN (IF gaps # <<>> THEN np_mean(gaps) ELSE R(0))
                    ELSE R(0)]>>

---------------------------------------------------------------------------
(* pipeline.py: the body of compute_coverage_metrics for one constellation *)
(* size; access_start is the event's unix_start and duration_seconds its   *)
(* duration_sec.  A constellation without rows gets no entry.              *)

\* Python's round(x, ndigits) for x >= 0: to the nearest, ties to even
py_round(x, ndigits) ==
    IF IsInf(x) THEN Inf
    ELSE LET scale == 10 ^ ndigits
             n == x.num * scale
             q == n \div x.den
             r == n % x.den
             up == \/ 2 * r > x.den
                   \/ 2 * r = x.den /\ q % 2 = 1
         IN  Rat(IF up THEN q + 1 ELSE q, scale)

pipeline_coverage_pct(const_data) ==
    LET total_access_time == sum_duration_sec(const_data)
        total_period_seconds == 24 * 3600
    IN  RMul(RDiv(total_access_time, R(total_period_seconds)), R(100))

\* times.diff().dt.total_seconds() / 3600, the leading NaT dropped
RECURSIVE time_diffs(_, _)
time_diffs(times, i) ==
    IF i > Len(times) - 1 THEN <<>>
    ELSE <<RDiv(RSub(times[i + 1].unix_start, times[i].unix_start), R(3600))>>
             \o time_diffs(times, i + 1)

pipeline_revisit_time_hours(const_data) ==
    IF Len(const_data) > 1
    THEN np_mean(time_diffs(sorted(const_data, "unix_start"), 1))
    ELSE Inf

compute_coverage_metrics(const_data) ==
    IF const_data = <<>> THEN <<>>
    ELSE LET total_access_time == sum_duration_sec(const_data)
             coverage_pct == pipeline_coverage_pct(const_data)
             revisit_time_hours == pipeline_revisit_time_hours(const_data)
             detection_latency_min ==
                 RAdd(R(5 + 10), RDiv(RMul(revisit_time_hours, R(60)), R(4)))
         IN  <<[coverage_pct |-> py_round(coverage_pct, 1),
                revisit_time_hours |-> py_round(revisit_time_hours, 2),
                detection_latency_min |-> py_round(detection_latency_min, 0),
                num_passes |-> Len(const_data),
                total_access_time_hours |->
                    py_round(RDiv(total_access_time, R(3600)), 1)]>>

---------------------------------------------------------------------------
(* Event lists handed to the metric functions *)

Event(s, e) ==
    [unix_start |-> R(s), unix_stop |-> R(e), duration_sec |-> R(e - s)]

\* instants around the scenario epoch, one of them before it
TimeVals == {(k - 1) * 50 : k \in 0..MaxTick}

\* passes of a single series; one lasts half a day and one starts after it
SeriesEvents ==
    {Event(p[1], p[2]) : p \in {q \in TimeVals \X TimeVals : q[1] < q[2]}}
        \cup {Event(0, LongPass), Event(LongPass, LongPass + 50)}

\* passes of two paired series: overlapping, nested, touching and disjoint
PairEvents ==
    {Event(0, 100), Event(50, 150), Event(100, 150), Event(0, 50),
     Event(50, 100), Event(0, 150)}

SeqsUpTo(S, n) == UNION {[1..k -> S] : k \in 0..n}

InitBatchIdle ==
    /\ family = "none"
    /\ csv_files = <<>>
    /\ file_num = 0
    /\ results = <<>>
    /\ reported = {}
    /\ stage = "idle"
    /\ saved_json = <<>>
    /\ metric_rows = <<>>
    /\ bucket_file = <<>>
    /\ totals = <<>>
    /\ summary = <<>>
    /\ parse_log = <<>>

InitPipelineIdle ==
    /\ pipeline_step = "idle"
    /\ pipeline_results = <<>>
    /\ stages_run = <<>>

InitParserIdle ==
    /\ tz_offset = 0
    /\ rows = <<>>
    /\ row_num = 0
    /\ passes = <<>>
    /\ satellite_id = -1
    /\ pc = "idle"
    /\ emit_rows = <<>>

InitSeries ==
    /\ series_a \in SeqsUpTo(SeriesEvents, MaxPasses)
    /\ series_b = <<>>
    /\ op = "none"
    /\ result = <<>>
    /\ InitParserIdle
    /\ InitBatchIdle
    /\ InitPipelineIdle

InitPair ==
    /\ series_a \in SeqsUpTo(PairEvents, MaxPair)
    /\ series_b \in SeqsUpTo(PairEvents, MaxPair)
    /\ op = "none"
    /\ result = <<>>
    /\ InitParserIdle
    /\ InitBatchIdle
    /\ InitPipelineIdle

\* a function that only reads its lists is called
Call(name, value) ==
    /\ op' = name
    /\ result' = <<value>>
    /\ UNCHANGED <<series_a, series_b>>
    /\ UNCHANGED parser_vars
    /\ UNCHANGED batch_vars
    /\ UNCHANGED pipeline_vars

\* a variant that sorts with list.sort(), which reorders the caller's list
after_list_sort(ps, key) == sorted(ps, key)

\* the caller's list once it has been handed to sorted(): sorted() builds a new
\* list and leaves its argument as it was
after_sorted(ps, key) == ps

\* the left operand once `ps + more` has been evaluated: `+` builds a new list
after_concat(ps, more) == ps

\* a function that sorts or joins the lists it is handed is called; the lists
\* are the caller's own objects, the buckets of the loaded Result Store
CallOnLists(name, value, a_after, b_after) ==
    /\ op' = name
    /\ result' = <<value>>
    /\ series_a' = a_after
    /\ series_b' = b_after
    /\ UNCHANGED parser_vars
    /\ UNCHANGED batch_vars
    /\ UNCHANGED pipeline_vars

DetectionLatency == Call("compute_detection_latency", compute_detection_latency(series_a))
EezDetectionLatency ==
    Call("eez_compute_detection_latency", eez_compute_detection_latency(series_a))
RevisitTimes ==
    CallOnLists("compute_revisit_times", compute_revisit_times(series_a),
                after_sorted(series_a, "unix_start"), series_b)
EezRevisitTimes ==
    CallOnLists("eez_compute_revisit_times", eez_compute_revisit_times(series_a),
                after_sorted(series_a, "unix_start"), series_b)
CoveragePercent == Call("compute_coverage_percent", compute_coverage_percent(series_a))
PortMetrics ==
    CallOnLists("compute_port_metrics", compute_port_metrics(series_a),
                after_sorted(series_a, "unix_start"), series_b)
CoverageMetrics ==
    CallOnLists("compute_coverage_metrics", compute_coverage_metrics(series_a),
                after_sorted(series_a, "unix_start"), series_b)
FusionWindows ==
    CallOnLists("compute_fusion_windows", compute_fusion_windows(series_a, series_b),
                after_sorted(series_a, "unix_start"), after_sorted(series_b, "unix_start"))
DeliveryLatency ==
    CallOnLists("compute_delivery_latency", compute_delivery_latency(series_a, series_b),
                after_sorted(series_a, "unix_stop"), after_sorted(series_b, "unix_start"))

\* the revisit loop of compute_metrics.main for one ship and constellation:
\* series_a is the SAR bucket, series_b the optical bucket
SarAndFusionRevisit ==
    CallOnLists("sar_and_fusion_revisit",
                [SAR |-> compute_revisit_times(series_a),
                 Fusion |-> compute_revisit_times(series_a \o series_b)],
                after_sorted(after_concat(series_a, series_b), "unix_start"), series_b)

NextSeries ==
    \/ DetectionLatency
    \/ EezDetectionLatency
    \/ RevisitTimes
    \/ EezRevisitTimes
    \/ CoveragePercent
    \/ PortMetrics
    \/ CoverageMetrics

NextPair ==
    \/ FusionWindows
    \/ DeliveryLatency

SpecSeries == InitSeries /\ [][NextSeries]_vars
SpecPair == InitPair /\ [][NextPair]_vars

\* the events of the worked examples: two passes an hour apart, and two passes
\* that overlap
ScenarioEvents == {Event(0, 600), Event(3600, 3900), Event(0, 100), Event(50, 150)}

InitScenario ==
    /\ series_a \in SeqsUpTo(ScenarioEvents, MaxPair)
    /\ series_b \in SeqsUpTo(ScenarioEvents, MaxPair)
    /\ op = "none"
    /\ result = <<>>
    /\ InitParserIdle
    /\ InitBatchIdle
    /\ InitPipelineIdle

NextScenario ==
    \/ NextSeries
    \/ NextPair
    \/ SarAndFusionRevisit

SpecScenario == InitScenario /\ [][NextScenario]_vars


---------------------------------------------------------------------------
(* parse_stk_access.py: parse_stk_csv (the same function is repeated in    *)
(* parse_ports.py, parse_eez_sar.py and parse_ship_eez.py).                *)
(*                                                                         *)
(* The text of a cell is a token: a word, an integer literal, a decimal    *)
(* literal or a timestamp of January 2026 in the format                    *)
(* "%d %b %Y %H:%M:%S.%f".  A raw cell, as csv.reader yields it, is that   *)
(* text, possibly inside a pair of quote characters and possibly preceded  *)
(* by blanks.                                                              *)

Txt(t) == [kind |-> "text", text |-> t]
IntLit(n) == [kind |-> "int", val |-> n]
FltLit(n, d) == [kind |-> "float", val |-> Rat(n, d)]
Tim(d, h, m, sec, us) ==
    [kind |-> "time", day |-> d, hour |-> h, minute |-> m, second |-> sec,
     micro |-> us]

Cell(body) == [pad |-> FALSE, quoted |-> FALSE, body |-> body]
QuotedCell(body) == [pad |-> TRUE, quoted |-> TRUE, body |-> body]

\* cell.strip(): truthy unless only blanks remain
strip_nonempty(cell) == cell.quoted \/ cell.body # Txt("")

\* [cell.strip().strip('"') for cell in row if cell.strip()]
clean_row(raw) ==
    LET kept == SelectSeq(raw, strip_nonempty)
    IN  [i \in 1..Len(kept) |-> kept[i].body]

\* 'Start Time' in cell
contains_start_time(cell) ==
    cell.kind = "text" /\ cell.text \in {"Start Time (UTCG)", "Start Time"}

\* first_cell.startswith(('Min Duration', 'Max Duration', 'Mean Duration',
\*                        'Total Duration', 'Statistics'))
startswith_statistics(cell) ==
    /\ cell.kind = "text"
    /\ cell.text \in {"Min Duration", "Max Duration", "Mean Duration",
                      "Total Duration", "Statistics", "Min Duration (sec)"}

is_short(row) == row = <<>> \/ Len(row) < 4

is_header(row) ==
    row[1] = Txt("Access") /\ Len(row) >= 4 /\ contains_start_time(row[2])

is_statistics(row) == startswith_statistics(row[1])

\* int(text), float(text), datetime.strptime(text, fmt): <<value>>, or <<>> for
\* a ValueError
py_int(cell) == IF cell.kind = "int" THEN <<cell.val>> ELSE <<>>

py_float(cell) ==
    IF cell.kind = "int" THEN <<R(cell.val)>>
    ELSE IF cell.kind = "float" THEN <<cell.val>>
    ELSE <<>>

strptime(cell) ==
    IF cell.kind = "time"
    THEN <<[day |-> cell.day, hour |-> cell.hour, minute |-> cell.minute,
            second |-> cell.second, micro |-> cell.micro]>>
    ELSE <<>>

\* naive datetime.timestamp(): the wall-clock time is taken as local time
timestamp(dt, tz) ==
    RAdd(R((dt.day - 1) * 86400 + dt.hour * 3600 + dt.minute * 60 + dt.second - tz),
         Rat(dt.micro, 1000000))

\* datetime.isoformat(): the fraction is written only when it is not zero
isoformat(dt) ==
    [date |-> <<2026, 1, dt.day>>, time |-> <<dt.hour, dt.minute, dt.second>>,
     fraction |-> IF dt.micro = 0 THEN <<>> ELSE <<dt.micro>>]

\* the try block of a data row: <<event>>, or <<>> when the except clause is taken
parse_data_row(row, sat, tz) ==
    LET access_id == py_int(row[1])
        duration == py_float(row[4])
        start_dt == strptime(row[2])
        stop_dt == strptime(row[3])
    IN  IF access_id = <<>> \/ duration = <<>> \/ start_dt = <<>> \/ stop_dt = <<>>
        THEN <<>>
        ELSE <<[satellite_id |-> sat,
                pass_num |-> access_id[1],
                start_time_str |-> row[2],
                stop_time_str |-> row[3],
                start_time |-> isoformat(start_dt[1]),
                stop_time |-> isoformat(stop_dt[1]),
                duration_sec |-> duration[1],
                unix_start |-> timestamp(start_dt[1], tz),
                unix_stop |-> timestamp(stop_dt[1], tz)]>>

\* a variant that looks for a header before it checks the number of cells
row_kind_header_first(raw, sat, tz) ==
    LET row == clean_row(raw)
    IN  IF Len(row) >= 2 /\ row[1] = Txt("Access") /\ contains_start_time(row[2])
        THEN "header"
        ELSE IF is_short(row) THEN "short"
        ELSE IF is_statistics(row) THEN "statistics"
        ELSE IF parse_data_row(row, sat, tz) = <<>> THEN "malformed"
        ELSE "data"

\* a variant that takes a statistics row for the header of a new block
row_kind_statistics_opens_block(raw, sat, tz) ==
    LET row == clean_row(raw)
    IN  IF is_short(row) THEN "short"
        ELSE IF is_header(row) \/ is_statistics(row) THEN "header"
        ELSE IF parse_data_row(row, sat, tz) = <<>> THEN "malformed"
        ELSE "data"

\* which branch of the loop body a raw row takes
row_kind(raw, sat, tz) ==
    LET row == clean_row(raw)
    IN  IF is_short(row) THEN "short"
        ELSE IF is_header(row) THEN "header"
        ELSE IF is_statistics(row) THEN "statistics"
        ELSE IF parse_data_row(row, sat, tz) = <<>> THEN "malformed"
        ELSE "data"

\* the whole loop, from row i on, as one function of the file
RECURSIVE scan_rows(_, _, _, _, _)
scan_rows(file, i, ps, sat, tz) ==
    IF i > Len(file) THEN ps
    ELSE LET kind == row_kind(file[i], sat, tz)
         IN  IF kind = "header" THEN scan_rows(file, i + 1, ps, sat + 1, tz)
             ELSE IF kind = "data"
             THEN scan_rows(file, i + 1,
                            ps \o parse_data_row(clean_row(file[i]), sat, tz), sat, tz)
             ELSE scan_rows(file, i + 1, ps, sat, tz)

parse_stk_csv(file, tz) == scan_rows(file, 1, <<>>, -1, tz)

---------------------------------------------------------------------------
(* Files handed to the parser *)

T0000 == Tim(1, 0, 0, 0, 0)
T0010 == Tim(1, 0, 10, 0, 0)
T0100 == Tim(1, 1, 0, 0, 0)
T0105 == Tim(1, 1, 5, 0, 5000)

RowSamples ==
    { \* block header, its cells quoted and padded
      <<QuotedCell(Txt("Access")), QuotedCell(Txt("Start Time (UTCG)")),
        QuotedCell(Txt("Stop Time (UTCG)")), QuotedCell(Txt("Duration (sec)"))>>,
      \* header cut short: three cells
      <<Cell(Txt("Access")), Cell(Txt("Start Time (UTCG)")), Cell(Txt("Stop Time (UTCG)"))>>,
      \* data rows whose duration matches stop - start
      <<Cell(IntLit(1)), Cell(T0000), Cell(T0010), Cell(FltLit(600, 1))>>,
      <<Cell(IntLit(2)), Cell(Txt("")), QuotedCell(T0100), Cell(T0105), Cell(FltLit(300005, 1000))>>,
      \* data row that stops before it starts
      <<Cell(IntLit(1)), Cell(T0010), Cell(T0000), Cell(IntLit(600))>>,
      \* data row whose reported duration is not stop - start
      <<Cell(IntLit(3)), Cell(T0010), Cell(T0100), Cell(FltLit(601, 2))>>,
      \* trailing statistics row
      <<Cell(Txt("Min Duration")), Cell(IntLit(1)), Cell(T0000), Cell(T0010), Cell(FltLit(600, 1))>>,
      \* two non-empty fields
      <<Cell(IntLit(4)), Cell(Txt("")), Cell(T0000), Cell(Txt(""))>>,
      \* access id that is no integer
      <<Cell(Txt("Global Statistics")), Cell(T0000), Cell(T0010), Cell(FltLit(600, 1))>>,
      \* unparsable timestamp
      <<Cell(IntLit(5)), Cell(Txt("n/a")), Cell(T0010), Cell(FltLit(600, 1))>>,
      \* unparsable duration
      <<Cell(IntLit(6)), Cell(T0000), Cell(T0010), Cell(Txt("n/a"))>>,
      \* blank line
      <<>> }

Files == SeqsUpTo(RowSamples, MaxRows)

\* the local time zones of the model: UTC and India Standard Time
TzOffsets == {0, 19800}

InitParse ==
    /\ series_a = <<>>
    /\ series_b = <<>>
    /\ op = "none"
    /\ result = <<>>
    /\ tz_offset \in TzOffsets
    /\ rows = <<>>
    /\ row_num = 0
    /\ passes = <<>>
    /\ satellite_id = -1
    /\ pc = "idle"
    /\ emit_rows = <<>>
    /\ InitBatchIdle
    /\ InitPipelineIdle

\* parse_stk_csv is entered: passes = [], satellite_id = -1, the file is opened
OpenFile ==
    /\ pc \in {"idle", "returned"}
    /\ \E file \in Files : rows' = file
    /\ row_num' = 0
    /\ passes' = <<>>
    /\ satellite_id' = -1
    /\ emit_rows' = <<>>
    /\ pc' = "scan"
    /\ UNCHANGED <<tz_offset, series_a, series_b, op, result>>
    /\ UNCHANGED batch_vars
    /\ UNCHANGED pipeline_vars

\* one pass through the loop body, for a row that takes the branch `kind`
NextRow(kind) ==
    /\ pc = "scan"
    /\ row_num < Len(rows)
    /\ row_kind(rows[row_num + 1], satellite_id, tz_offset) = kind
    /\ row_num' = row_num + 1
    /\ UNCHANGED <<tz_offset, rows, pc, series_a, series_b, op, result>>
    /\ UNCHANGED batch_vars
    /\ UNCHANGED pipeline_vars

SkipShortRow == NextRow("short") /\ UNCHANGED <<passes, satellite_id, emit_rows>>

\* a variant whose header row restarts the block index at 0
HeaderRowRestarts ==
    /\ NextRow("header")
    /\ satellite_id' = 0
    /\ UNCHANGED <<passes, emit_rows>>

HeaderRow ==
    /\ NextRow("header")
    /\ satellite_id' = satellite_id + 1
    /\ UNCHANGED <<passes, emit_rows>>

SkipStatisticsRow == NextRow("statistics") /\ UNCHANGED <<passes, satellite_id, emit_rows>>

DataRow ==
    /\ NextRow("data")
    /\ passes' = passes \o parse_data_row(clean_row(rows[row_num + 1]), satellite_id,
                                          tz_offset)
    /\ emit_rows' = Append(emit_rows, row_num + 1)
    /\ UNCHANGED satellite_id

SkipMalformedRow == NextRow("malformed") /\ UNCHANGED <<passes, satellite_id, emit_rows>>

\* the loop is over: the file is closed and passes is handed to the caller; the
\* counter keeps its last value until the next call initialises it
ReturnPasses ==
    /\ pc = "scan"
    /\ row_num = Len(rows)
    /\ pc' = "returned"
    /\ rows' = <<>>
    /\ row_num' = 0
    /\ passes' = <<>>
    /\ emit_rows' = <<>>
    /\ UNCHANGED <<tz_offset, satellite_id, series_a, series_b, op, result>>
    /\ UNCHANGED batch_vars
    /\ UNCHANGED pipeline_vars

NextParse ==
    \/ OpenFile
    \/ SkipShortRow
    \/ HeaderRow
    \/ SkipStatisticsRow
    \/ DataRow
    \/ SkipMalformedRow
    \/ ReturnPasses

SpecParse == InitParse /\ [][NextParse]_vars

---------------------------------------------------------------------------
(* Text: the operations on str and the regular expressions that the file   *)
(* classifiers use, character by character.                                *)

Char(s, i) == SubSeq(s, i, i)

\* s[i:].startswith(p), with i counted from 1
match_at(s, i, p) == i + Len(p) - 1 <= Len(s) /\ SubSeq(s, i, i + Len(p) - 1) = p

startswith(s, p) == match_at(s, 1, p)

endswith(s, p) == Len(s) >= Len(p) /\ match_at(s, Len(s) - Len(p) + 1, p)

\* p in s
contains(s, p) == \E i \in 1..Len(s) : match_at(s, i, p)

Least(S) == CHOOSE i \in S : \A j \in S : i <= j

DigitChars == <<"0", "1", "2", "3", "4", "5", "6", "7", "8", "9">>

\* \d
Digits == {DigitChars[i] : i \in 1..10}

\* \w
WordChars ==
    Digits \cup {"_"} \cup
    {"a", "b", "c", "d", "e", "f", "g", "h", "i", "j", "k", "l", "m", "n", "o", "p",
     "q", "r", "s", "t", "u", "v", "w", "x", "y", "z", "A", "B", "C", "D", "E", "F",
     "G", "H", "I", "J", "K", "L", "M", "N", "O", "P", "Q", "R", "S", "T", "U", "V",
     "W", "X", "Y", "Z"}

\* index of the last character of the longest run of class characters from i on
RECURSIVE run_end(_, _, _)
run_end(s, i, class) ==
    IF i <= Len(s) /\ Char(s, i) \in class THEN run_end(s, i + 1, class) ELSE i - 1

\* re.search(literal + '(' + class + '+)', s): <<group(1)>> of the leftmost
\* match, <<>> for None
re_search(literal, class, s) ==
    LET starts == {i \in 1..Len(s) : /\ match_at(s, i, literal)
                                     /\ i + Len(literal) <= Len(s)
                                     /\ Char(s, i + Len(literal)) \in class}
    IN  IF starts = {} THEN <<>>
        ELSE LET j == Least(starts) + Len(literal)
             IN  <<SubSeq(s, j, run_end(s, j, class))>>

\* int(s) for a string of decimal digits
RECURSIVE int_digits(_)
int_digits(s) ==
    IF Len(s) = 0 THEN 0
    ELSE 10 * int_digits(SubSeq(s, 1, Len(s) - 1))
             + (CHOOSE d \in 0..9 : DigitChars[d + 1] = Char(s, Len(s)))

\* str(n) for n >= 0
RECURSIVE str(_)
str(n) ==
    IF n < 10 THEN DigitChars[n + 1]
    ELSE str(n \div 10) \o DigitChars[(n % 10) + 1]

\* s.replace(old, new)
RECURSIVE replace(_, _, _)
replace(s, old, new) ==
    IF Len(s) = 0 THEN s
    ELSE IF match_at(s, 1, old)
    THEN new \o replace(SubSeq(s, Len(old) + 1, Len(s)), old, new)
    ELSE Char(s, 1) \o replace(SubSeq(s, 2, Len(s)), old, new)

\* s.split(sep)[0]
split_first(s, sep) ==
    LET hits == {i \in 1..Len(s) : match_at(s, i, sep)}
    IN  IF hits = {} THEN s ELSE SubSeq(s, 1, Least(hits) - 1)

\* fnmatch of a name against the pattern prefix + '*' + suffix
glob_match(prefix, suffix, name) ==
    /\ Len(name) >= Len(prefix) + Len(suffix)
    /\ startswith(name, prefix)
    /\ endswith(name, suffix)

---------------------------------------------------------------------------
(* File classifiers.  A category is <<key>>, the path of the bucket in the *)
(* nested Result Store, or <<>> when the file is skipped.                  *)

\* parse_stk_access.py: the table of get_file_category
mapping ==
    "Ship1-Constellation6_SAR_Access.csv" :> <<"Ship1", "SAR", 6>> @@
    "Ship1-Constellation6_Optical_Access.csv" :> <<"Ship1", "Optical", 6>> @@
    "Ship1-Constellation12_SAR_Access.csv" :> <<"Ship1", "SAR", 12>> @@
    "Ship1-Constellation12_Optical_Access.csv" :> <<"Ship1", "Optical", 12>> @@
    "Ship1-Constellation32_SAR_Access.csv" :> <<"Ship1", "SAR", 32>> @@
    "Ship1-Constellation32_Optical_Access.csv" :> <<"Ship1", "Optical", 32>> @@
    "Ship2-Constellation6_SAR_Access.csv" :> <<"Ship2", "SAR", 6>> @@
    "Ship2-Constellation6_Optical_Access.csv" :> <<"Ship2", "Optical", 6>> @@
    "Ship2-Constellation12_SAR_Access.csv" :> <<"Ship2", "SAR", 12>> @@
    "Ship2-Constellation12_Optical_Access.csv" :> <<"Ship2", "Optical", 12>> @@
    "Ship2-Constellation32_SAR_Access.csv" :> <<"Ship2", "SAR", 32>> @@
    "Ship2-Constellation32_Optical_Access.csv" :> <<"Ship2", "Optical", 32>> @@
    "Ship3-Constellation6_SAR_Access.csv" :> <<"Ship3", "SAR", 6>> @@
    "Ship3-Constellation6_Optical_Access.csv" :> <<"Ship3", "Optical", 6>> @@
    "Ship3-Constellation12_SAR_Access.csv" :> <<"Ship3", "SAR", 12>> @@
    "Ship3-Constellation12_Optical_Access.csv" :> <<"Ship3", "Optical", 12>> @@
    "Ship3-Constellation32_SAR_Access.csv" :> <<"Ship3", "SAR", 32>> @@
    "Ship3-Constellation32_Optical_Access.csv" :> <<"Ship3", "Optical", 32>> @@
    "GS_Ahmedabad-Walker6_Access.csv" :> <<"groundstations", "Ahmedabad", 6>> @@
    "GS_Ahmedabad-Walker12_Access.csv" :> <<"groundstations", "Ahmedabad", 12>> @@
    "GS_Ahmedabad-Walker32_Access.csv" :> <<"groundstations", "Ahmedabad", 32>> @@
    "GS_Sriharikota-Walker6_Access.csv" :> <<"groundstations", "Sriharikota", 6>> @@
    "GS_Sriharikota-Walker12_Access.csv" :> <<"groundstations", "Sriharikota", 12>> @@
    "GS_Sriharikota-Walker32_Access.csv" :> <<"groundstations", "Sriharikota", 32>>

\* mapping.get(filename, (None, None, None)), and the test category[0] is None
get_file_category(filename) ==
    IF filename \in DOMAIN mapping THEN <<mapping[filename]>> ELSE <<>>

\* parse_ports.py, main: port name, constellation and sensor of a file name
ports_category(filename) ==
    LET port_match == re_search("Port_", WordChars, filename)
        const_match == re_search("Walker", Digits, filename)
        sensor == IF contains(filename, "_SAR_") THEN "SAR" ELSE "Optical"
    IN  IF port_match = <<>> THEN <<>>
        ELSE IF const_match = <<>> THEN <<>>
        ELSE << <<port_match[1], sensor, int_digits(const_match[1])>> >>

\* parse_eez_sar.py, main: EEZ name and constellation of a file name
eez_category(filename) ==
    LET name_clean == replace(replace(filename, ".csv", ""), "EEZ_", "")
        eez_name == split_first(name_clean, "-")
        match == re_search("Constellation", Digits, filename)
    IN  IF match = <<>> THEN <<>>
        ELSE << <<eez_name, int_digits(match[1])>> >>

category(fam, filename) ==
    IF fam = "stk" THEN get_file_category(filename)
    ELSE IF fam = "ports" THEN ports_category(filename)
    ELSE eez_category(filename)

\* the pattern each script hands to DATA_DIR.glob
glob(fam, name) ==
    IF fam = "stk" THEN glob_match("", ".csv", name)
    ELSE IF fam = "ports" THEN glob_match("Port_", "_Access.csv", name)
    ELSE glob_match("EEZ_", "_SAR_Access.csv", name)

---------------------------------------------------------------------------
(* The interchange file: json.dump(results, f, default=str) and json.load. *)
(* A JSON object has string keys only, so the integer constellation key is *)
(* written as its decimal text; an event is written field by field as a    *)
(* JSON integer, real or string, and read back as the value that text      *)
(* denotes.                                                                *)

IntFields == {"satellite_id", "pass_num"}
FloatFields == {"duration_sec", "unix_start", "unix_stop"}

json_type(field) ==
    IF field \in IntFields THEN "int"
    ELSE IF field \in FloatFields THEN "real"
    ELSE "string"

dump_event(e) == [f \in DOMAIN e |-> [json |-> json_type(f), text |-> e[f]]]

load_event(j) == [f \in DOMAIN j |-> j[f].text]

\* the path of a bucket in the written document
json_key(key) == [i \in 1..Len(key) |-> IF i = Len(key) THEN str(key[i]) ELSE key[i]]

json_dump(store) ==
    [k \in {json_key(key) : key \in DOMAIN store} |->
        LET key == CHOOSE key \in DOMAIN store : json_key(key) = k
        IN  [i \in 1..Len(store[key]) |-> dump_event(store[key][i])]]

json_load(doc) ==
    [k \in DOMAIN doc |-> [i \in 1..Len(doc[k]) |-> load_event(doc[k][i])]]

---------------------------------------------------------------------------
(* The parsing scripts: main() of parse_stk_access.py, parse_ports.py and  *)
(* parse_eez_sar.py, one action per pass through the loop over csv_files.  *)

Families == {"stk", "ports", "eez_sar"}

\* names a data directory may hold, in the order sorted() gives them
StkNames ==
    <<"Ship1-Constellation12_SAR_Access.csv", "Ship1-Constellation24_SAR_Access.csv",
      "Ship1-Constellation6_Optical_Access.csv", "Ship1-Constellation6_SAR_Access.csv",
      "Ship2-Constellation6_Optical_Access.csv", "Ship2-Constellation6_SAR_Access.csv",
      "Ship3-Constellation6_Optical_Access.csv", "Ship3-Constellation6_SAR_Access.csv",
      "notes.txt">>

PortNames ==
    <<"Port_-Walker6_SAR_Access.csv", "Port_Kochi-Constellation12_SAR_Access.csv",
      "Port_Kochi-Walker12_SAR.csv", "Port_Kochi-Walker24_SAR_Access.csv",
      "Port_Mumbai-Walker6_Access.csv", "Port_Mumbai-Walker6_Optical_Access.csv",
      "Port_Mumbai-Walker6_SAR_Access.csv">>

EezNames ==
    <<"EEZ_East-Constellation6_SAR_Access.csv", "EEZ_West-Constellation12_SAR_Access.csv",
      "EEZ_West-Constellation24_SAR_Access.csv", "EEZ_West-Constellation6_SAR_Access.csv",
      "EEZ_West-Ship1_3_Access.csv", "EEZ_West-Walker6_SAR_Access.csv">>

DirNames(fam) ==
    IF fam = "stk" THEN StkNames ELSE IF fam = "ports" THEN PortNames ELSE EezNames

\* sorted(DATA_DIR.glob(pattern)) for a directory holding the names of dir
sorted_glob(fam, dir) ==
    SelectSeq(DirNames(fam), LAMBDA name : name \in dir /\ glob(fam, name))

\* what a readable file may hold: nothing, or one block of two passes
BatchFiles ==
    { <<>>,
      << <<Cell(Txt("Access")), Cell(Txt("Start Time (UTCG)")),
           Cell(Txt("Stop Time (UTCG)")), Cell(Txt("Duration (sec)"))>>,
         <<Cell(IntLit(1)), Cell(T0000), Cell(T0010), Cell(FltLit(600, 1))>>,
         <<Cell(IntLit(2)), Cell(T0100), Cell(T0105), Cell(FltLit(300005, 1000))>> >> }

\* the counters main() sets before its loop
initial_totals(fam) ==
    IF fam = "stk" THEN [processed |-> 0, total_passes |-> 0, total_duration |-> R(0)]
    ELSE [total_passes |-> 0]

\* the counters after one more file has been parsed into file_passes
count_file(fam, counters, file_passes) ==
    IF fam = "stk"
    THEN [processed |-> counters.processed + 1,
          total_passes |-> counters.total_passes + Len(file_passes),
          total_duration |-> RAdd(counters.total_duration, sum_duration_sec(file_passes))]
    ELSE [total_passes |-> counters.total_passes + Len(file_passes)]

\* the counts the closing summary of main() prints
run_summary(fam, counters, buckets) ==
    IF fam = "stk"
    THEN [files |-> counters.processed, of |-> 24,
          passes |-> counters.total_passes, duration |-> counters.total_duration]
    ELSE IF fam = "ports"
    THEN [passes |-> counters.total_passes,
          ports |-> Cardinality({key[1] : key \in DOMAIN buckets})]
    ELSE [passes |-> counters.total_passes]

InitBatch ==
    /\ series_a = <<>>
    /\ series_b = <<>>
    /\ op = "none"
    /\ result = <<>>
    /\ InitParserIdle
    /\ family \in Families
    /\ \E dir \in SUBSET {DirNames(family)[i] : i \in 1..Len(DirNames(family))} :
           csv_files = sorted_glob(family, dir)
    /\ file_num = 0
    /\ results = <<>>
    /\ reported = {}
    /\ stage = "parsing"
    /\ saved_json = <<>>
    /\ metric_rows = <<>>
    /\ bucket_file = <<>>
    /\ totals = initial_totals(family)
    /\ summary = <<>>
    /\ parse_log = <<>>
    /\ InitPipelineIdle

\* a variant that adds the new events to those the bucket already holds
store_extending(buckets, key, value) ==
    [k \in DOMAIN buckets \cup {key} |->
        IF k = key
        THEN (IF key \in DOMAIN buckets THEN buckets[key] ELSE <<>>) \o value
        ELSE buckets[k]]

\* results[...][constellation] = passes
store(buckets, key, value) ==
    [k \in DOMAIN buckets \cup {key} |-> IF k = key THEN value ELSE buckets[k]]

\* `if not csv_files: return` of parse_ports.py and parse_eez_sar.py
NoFilesFound ==
    /\ stage = "parsing"
    /\ family \in {"ports", "eez_sar"}
    /\ csv_files = <<>>
    /\ stage' = "no_files"
    /\ UNCHANGED <<family, csv_files, file_num, results, reported, saved_json,
                   metric_rows, bucket_file, totals, summary, parse_log>>
    /\ UNCHANGED <<series_a, series_b, op, result>>
    /\ UNCHANGED parser_vars
    /\ UNCHANGED pipeline_vars

InLoop ==
    /\ stage = "parsing"
    /\ file_num < Len(csv_files)

\* the name yields no category: a SKIP line is printed and the loop continues
SkipFile ==
    /\ family \in Families
    /\ InLoop
    /\ category(family, csv_files[file_num + 1]) = <<>>
    /\ reported' = reported \cup {csv_files[file_num + 1]}
    /\ file_num' = file_num + 1
    /\ UNCHANGED <<family, csv_files, results, stage, saved_json, metric_rows,
                   bucket_file, totals, summary, parse_log>>
    /\ UNCHANGED <<series_a, series_b, op, result>>
    /\ UNCHANGED parser_vars
    /\ UNCHANGED pipeline_vars

\* the file is parsed and its events are filed under its category
StoreFile ==
    /\ family \in Families
    /\ InLoop
    /\ category(family, csv_files[file_num + 1]) # <<>>
    /\ \E file \in BatchFiles :
           LET file_passes == parse_stk_csv(file, tz_offset)
               key == category(family, csv_files[file_num + 1])[1]
           IN  /\ results' = store(results, key, file_passes)
               /\ totals' = count_file(family, totals, file_passes)
               /\ parse_log' = Append(parse_log, [file |-> csv_files[file_num + 1],
                                                  keys |-> <<key>>,
                                                  passes |-> file_passes])
    /\ bucket_file' = store(bucket_file, category(family, csv_files[file_num + 1])[1],
                            csv_files[file_num + 1])
    /\ file_num' = file_num + 1
    /\ UNCHANGED <<family, csv_files, reported, stage, saved_json, metric_rows, summary>>
    /\ UNCHANGED <<series_a, series_b, op, result>>
    /\ UNCHANGED parser_vars
    /\ UNCHANGED pipeline_vars

\* open() or the decoding of the file raises inside parse_stk_csv; main() has
\* no handler, so the exception ends the script before json.dump
ParseError ==
    /\ family \in Families
    /\ InLoop
    /\ category(family, csv_files[file_num + 1]) # <<>>
    /\ stage' = "aborted"
    /\ UNCHANGED <<family, csv_files, file_num, results, reported, saved_json,
                   metric_rows, bucket_file, totals, summary, parse_log>>
    /\ UNCHANGED <<series_a, series_b, op, result>>
    /\ UNCHANGED parser_vars
    /\ UNCHANGED pipeline_vars

\* the loop is over: the summary is printed, then
\* json.dump(results, f, default=str, indent=2)
SaveResults ==
    /\ family \in Families
    /\ stage = "parsing"
    /\ file_num = Len(csv_files)
    /\ family = "stk" \/ csv_files # <<>>
    /\ summary' = <<run_summary(family, totals, results)>>
    /\ saved_json' = <<json_dump(results)>>
    /\ stage' = "saved"
    /\ UNCHANGED <<family, csv_files, file_num, results, reported, metric_rows,
                   bucket_file, totals, parse_log>>
    /\ UNCHANGED <<series_a, series_b, op, result>>
    /\ UNCHANGED parser_vars
    /\ UNCHANGED pipeline_vars

---------------------------------------------------------------------------
(* The metrics stage: main() of compute_metrics.py and                     *)
(* compute_eez_metrics.py and compute_port_metrics of port_dashboard.py,   *)
(* each over the document json.load returns.                               *)

Ships == {"Ship1", "Ship2", "Ship3"}
Constellations == {6, 12, 32}
Sensors == {"SAR", "Optical"}

\* the nested dictionaries data[path[1]][path[2]]... exist
has_path(data, path) ==
    \E k \in DOMAIN data : Len(k) >= Len(path) /\ SubSeq(k, 1, Len(path)) = path

\* a variant that looks a constellation up under the token of the file names
const_key_walker(const) == "Walker" \o str(const)

\* the key under which a constellation size is looked up: str(const)
const_key(const) == str(const)

\* data[...].get(str(const), [])
dict_get(data, path, const) ==
    LET key == Append(path, const_key(const))
    IN  IF key \in DOMAIN data THEN data[key] ELSE <<>>

\* data[ship]['SAR'] or data[ship]['Optical'] raises KeyError
ship_key_error(data) ==
    \E ship \in Ships, sensor \in Sensors : ~has_path(data, <<ship, sensor>>)

\* one row per ship and constellation of the three tables of compute_metrics.py
ship_metrics(data) ==
    [row \in Ships \X Constellations |->
        LET sar_passes == dict_get(data, <<row[1], "SAR">>, row[2])
            opt_passes == dict_get(data, <<row[1], "Optical">>, row[2])
            sar_latency == compute_detection_latency(sar_passes)
            opt_latency == compute_detection_latency(opt_passes)
        IN  [sar_latency |-> sar_latency,
             optical_latency |-> opt_latency,
             fusion_latency |-> IF RLt(opt_latency, sar_latency) THEN opt_latency
                                ELSE sar_latency,
             sar_revisit |-> compute_revisit_times(sar_passes),
             fusion_revisit |-> compute_revisit_times(sar_passes \o opt_passes),
             windows |-> compute_fusion_windows(sar_passes, opt_passes)]]

\* one row per EEZ of the store and constellation of the three tables of
\* compute_eez_metrics.py
eez_metrics(data) ==
    [row \in {k[1] : k \in DOMAIN data} \X Constellations |->
        LET ps == dict_get(data, <<row[1]>>, row[2])
            rev == eez_compute_revisit_times(ps)
        IN  [detection_latency_min |-> eez_compute_detection_latency(ps),
             num_passes |-> Len(ps),
             mean_revisit_min |-> rev.mean,
             min_revisit_min |-> rev.min,
             max_revisit_min |-> rev.max,
             median_revisit_min |-> rev.median,
             num_gaps |-> rev.count,
             total_access_min |-> compute_total_access_time(ps),
             coverage_percent |-> compute_coverage_percent(ps)]]

\* the rows of compute_port_metrics, by port, sensor and int(const)
port_metrics(data) ==
    [row \in {<<k[1], k[2], int_digits(k[3])>> : k \in DOMAIN data} |->
        compute_port_metrics(data[<<row[1], row[2], str(row[3])>>])]

MetricsStage(fam) ==
    /\ stage = "saved"
    /\ family = fam
    /\ UNCHANGED <<family, csv_files, file_num, results, reported, saved_json,
                   bucket_file, totals, summary, parse_log>>
    /\ UNCHANGED <<series_a, series_b, op, result>>
    /\ UNCHANGED parser_vars
    /\ UNCHANGED pipeline_vars

ComputeShipMetrics ==
    /\ MetricsStage("stk")
    /\ ~ship_key_error(json_load(saved_json[1]))
    /\ metric_rows' = ship_metrics(json_load(saved_json[1]))
    /\ stage' = "metrics_done"

\* the first loop of compute_metrics.main raises before any table is written
ShipMetricsKeyError ==
    /\ MetricsStage("stk")
    /\ ship_key_error(json_load(saved_json[1]))
    /\ stage' = "metrics_failed"
    /\ UNCHANGED metric_rows

ComputeEezMetrics ==
    /\ MetricsStage("eez_sar")
    /\ metric_rows' = eez_metrics(json_load(saved_json[1]))
    /\ stage' = "metrics_done"

ComputePortMetrics ==
    /\ MetricsStage("ports")
    /\ metric_rows' = port_metrics(json_load(saved_json[1]))
    /\ stage' = "metrics_done"

NextBatch ==
    \/ NoFilesFound
    \/ SkipFile
    \/ StoreFile
    \/ ParseError
    \/ SaveResults
    \/ ComputeShipMetrics
    \/ ShipMetricsKeyError
    \/ ComputeEezMetrics
    \/ ComputePortMetrics

SpecBatch == InitBatch /\ [][NextBatch]_vars


---------------------------------------------------------------------------
(* The ship-transit script: main() of parse_ship_eez.py.  Its buckets are   *)
(* results[eez_name][ship_key], both keys strings; one file may name        *)
(* several ships and is then filed under each of them.                      *)

Greatest(S) == CHOOSE i \in S : \A j \in S : j <= i

\* re.search(r'Ship([\d_]+)_Access', s): <<group(1)>> of the leftmost match,
\* the group taken as long as the rest of the pattern allows; <<>> for None
re_search_ship(s) ==
    LET class == Digits \cup {"_"}
        ends(i) == {m \in (i + 4)..run_end(s, i + 4, class) : match_at(s, m + 1, "_Access")}
        starts == {i \in 1..Len(s) : match_at(s, i, "Ship") /\ ends(i) # {}}
    IN  IF starts = {} THEN <<>>
        ELSE LET i == Least(starts)
             IN  <<SubSeq(s, i + 4, Greatest(ends(i)))>>

\* s.split(sep), for a separator of one character
RECURSIVE split(_, _)
split(s, sep) ==
    LET hits == {i \in 1..Len(s) : Char(s, i) = sep}
    IN  IF hits = {} THEN <<s>>
        ELSE <<SubSeq(s, 1, Least(hits) - 1)>> \o split(SubSeq(s, Least(hits) + 1, Len(s)), sep)

\* a variant that keeps the first ship number only
ship_numbers_first(ship_str) ==
    LET parts == SelectSeq(split(ship_str, "_"), LAMBDA part : part # "")
    IN  IF parts = <<>> THEN <<>> ELSE <<int_digits(parts[1])>>

\* [int(s) for s in ship_str.split('_') if s]
ship_numbers(ship_str) ==
    LET parts == SelectSeq(split(ship_str, "_"), LAMBDA part : part # "")
    IN  [i \in 1..Len(parts) |-> int_digits(parts[i])]

\* <<the keys a file is stored under, in the order of the loop>>, or <<>> when
\* the file is skipped
ship_eez_category(filename) ==
    LET eez_match == re_search("EEZ_", WordChars, filename)
        ship_match == re_search_ship(filename)
    IN  IF eez_match = <<>> THEN <<>>
        ELSE IF ship_match = <<>> THEN <<>>
        ELSE LET numbers == ship_numbers(ship_match[1])
             IN  << [i \in 1..Len(numbers) |-> <<eez_match[1], "Ship" \o str(numbers[i])>>] >>

\* fnmatch of a name against "EEZ_*-Ship*_Access.csv"
ship_eez_glob(name) ==
    /\ startswith(name, "EEZ_")
    /\ endswith(name, "_Access.csv")
    /\ \E i \in 5..(Len(name) - 15) : match_at(name, i, "-Ship")

\* names a data directory may hold, in the order sorted() gives them
ShipEezNames ==
    <<"EEZ_-Ship1_Access.csv", "EEZ_East-Ship2_Access.csv",
      "EEZ_West-Constellation6_SAR_Access.csv", "EEZ_West-Ship1_3_Access.csv",
      "EEZ_West-Ship1_Access.csv", "EEZ_West-Ship__Access.csv",
      "EEZ_West-Ships_Access.csv">>

InitShipEez ==
    /\ series_a = <<>>
    /\ series_b = <<>>
    /\ op = "none"
    /\ result = <<>>
    /\ InitParserIdle
    /\ family = "ship_eez"
    /\ \E dir \in SUBSET {ShipEezNames[i] : i \in 1..Len(ShipEezNames)} :
           csv_files = SelectSeq(ShipEezNames, LAMBDA name : name \in dir /\ ship_eez_glob(name))
    /\ file_num = 0
    /\ results = <<>>
    /\ reported = {}
    /\ stage = "parsing"
    /\ saved_json = <<>>
    /\ metric_rows = <<>>
    /\ bucket_file = <<>>
    /\ totals = [total_passes |-> 0]
    /\ summary = <<>>
    /\ parse_log = <<>>
    /\ InitPipelineIdle

\* for ship_num in ship_numbers: results[eez_name][ship_key] = passes
RECURSIVE store_each(_, _, _)
store_each(buckets, keys, value) ==
    IF keys = <<>> THEN buckets
    ELSE store_each(store(buckets, keys[1], value), Tail(keys), value)

ShipEezStep ==
    /\ family = "ship_eez"
    /\ UNCHANGED <<family, csv_files, metric_rows>>
    /\ UNCHANGED <<series_a, series_b, op, result>>
    /\ UNCHANGED parser_vars
    /\ UNCHANGED pipeline_vars

\* `if not csv_files: return`
ShipEezNoFilesFound ==
    /\ ShipEezStep
    /\ stage = "parsing"
    /\ csv_files = <<>>
    /\ stage' = "no_files"
    /\ UNCHANGED <<file_num, results, reported, saved_json, bucket_file, totals, summary,
                   parse_log>>

\* no EEZ name or no ship numbers in the name: a SKIP line, and the loop continues
ShipEezSkipFile ==
    /\ ShipEezStep
    /\ InLoop
    /\ ship_eez_category(csv_files[file_num + 1]) = <<>>
    /\ reported' = reported \cup {csv_files[file_num + 1]}
    /\ file_num' = file_num + 1
    /\ UNCHANGED <<results, stage, saved_json, bucket_file, totals, summary, parse_log>>

\* the file is parsed once and its events are filed under each of its ship keys;
\* total_passes grows by len(passes) for every key
ShipEezStoreFile ==
    /\ ShipEezStep
    /\ InLoop
    /\ ship_eez_category(csv_files[file_num + 1]) # <<>>
    /\ \E file \in BatchFiles :
           LET file_passes == parse_stk_csv(file, tz_offset)
               keys == ship_eez_category(csv_files[file_num + 1])[1]
           IN  /\ results' = store_each(results, keys, file_passes)
               /\ bucket_file' = store_each(bucket_file, keys, csv_files[file_num + 1])
               /\ totals' = [total_passes |->
                                totals.total_passes + Len(keys) * Len(file_passes)]
               /\ parse_log' = Append(parse_log, [file |-> csv_files[file_num + 1],
                                                  keys |-> keys,
                                                  passes |-> file_passes])
    /\ file_num' = file_num + 1
    /\ UNCHANGED <<reported, stage, saved_json, summary>>

\* parse_stk_csv raises; main() has no handler
ShipEezParseError ==
    /\ ShipEezStep
    /\ InLoop
    /\ ship_eez_category(csv_files[file_num + 1]) # <<>>
    /\ stage' = "aborted"
    /\ UNCHANGED <<file_num, results, reported, saved_json, bucket_file, totals, summary,
                   parse_log>>

\* the loop is over: the pass total is printed and results is dumped; every key
\* of the document is a string already
ShipEezSaveResults ==
    /\ ShipEezStep
    /\ stage = "parsing"
    /\ file_num = Len(csv_files)
    /\ csv_files # <<>>
    /\ summary' = <<[passes |-> totals.total_passes]>>
    /\ saved_json' = <<[key \in DOMAIN results |->
                          [i \in 1..Len(results[key]) |-> dump_event(results[key][i])]]>>
    /\ stage' = "saved"
    /\ UNCHANGED <<file_num, results, reported, bucket_file, totals, parse_log>>

NextShipEez ==
    \/ ShipEezNoFilesFound
    \/ ShipEezSkipFile
    \/ ShipEezStoreFile
    \/ ShipEezParseError
    \/ ShipEezSaveResults

SpecShipEez == InitShipEez /\ [][NextShipEez]_vars

\* all four parsing scripts
InitParsers == InitBatch \/ InitShipEez

NextParsers == NextBatch \/ NextShipEez

SpecParsers == InitParsers /\ [][NextParsers]_vars

---------------------------------------------------------------------------
(* pipeline.py: run_analysis_pipeline.  The five steps of its try block    *)
(* are one action each; any of them may raise, and the one handler of the  *)
(* function then records the error.  series_a is the combined access data  *)
(* that parse_access_files returns.                                        *)

Stages == <<"parse", "coverage", "fusion", "dashboards", "export">>

\* the results dict at entry
initial_results ==
    [status |-> "success", access_windows_loaded |-> 0, dashboards_generated |-> <<>>,
     metrics_files |-> <<>>, errors |-> <<>>]

\* str(e) of the exceptions a stage may raise; an exception without arguments
\* has the empty text
Messages(stage_name) ==
    IF stage_name = "parse"
    THEN {"No CSV files found in data/raw", "Could not parse any CSV files from data/raw"}
    ELSE {"", "'duration_seconds'"}

\* a variant whose handler only prints the error
on_exception_printed(res, message) == res

\* except Exception as e: status = 'error', errors.append(str(e))
on_exception(res, message) ==
    [res EXCEPT !.status = "error", !.errors = Append(@, message)]

InitPipeline ==
    /\ series_a \in SeqsUpTo(ScenarioEvents, MaxPair)
    /\ series_b = <<>>
    /\ op = "none"
    /\ result = <<>>
    /\ InitParserIdle
    /\ InitBatchIdle
    /\ pipeline_step = "start"
    /\ pipeline_results = initial_results
    /\ stages_run = <<>>

\* the step after the one completed last is entered
Enter(stage_name) ==
    /\ pipeline_step = (IF stage_name = "parse" THEN "start"
                        ELSE Stages[(CHOOSE i \in 1..5 : Stages[i] = stage_name) - 1])
    /\ UNCHANGED <<series_a, series_b>>
    /\ UNCHANGED parser_vars
    /\ UNCHANGED batch_vars

Completes(stage_name) ==
    /\ Enter(stage_name)
    /\ stages_run' = Append(stages_run, [stage |-> stage_name, ok |-> TRUE])
    /\ pipeline_step' = stage_name

\* step 1: access_data = parse_access_files(data_dir)
ParseStage ==
    /\ Completes("parse")
    /\ pipeline_results' = [pipeline_results EXCEPT !.access_windows_loaded = Len(series_a)]
    /\ UNCHANGED <<op, result>>

\* step 2: metrics = compute_coverage_metrics(access_data)
CoverageStage ==
    /\ Completes("coverage")
    /\ op' = "compute_coverage_metrics"
    /\ result' = <<compute_coverage_metrics(series_a)>>
    /\ UNCHANGED pipeline_results

\* step 3: fusion_metrics = compute_fusion_benefits(access_data)
FusionStage ==
    /\ Completes("fusion")
    /\ UNCHANGED <<pipeline_results, op, result>>

\* step 4: the six dashboard functions are called and their return values kept
DashboardsStage ==
    /\ Completes("dashboards")
    /\ pipeline_results' =
           [pipeline_results EXCEPT !.dashboards_generated =
               <<"constellation", "eez", "port", "ship", "comparison", "fusion">>]
    /\ UNCHANGED <<op, result>>

\* step 5: both tables are written and their paths appended
ExportStage ==
    /\ Completes("export")
    /\ pipeline_results' =
           [pipeline_results EXCEPT !.metrics_files =
               @ \o <<"coverage_metrics.csv", "fusion_metrics.csv">>]
    /\ UNCHANGED <<op, result>>

\* a step raises; written is what step 5 had appended to metrics_files before
\* the exception (the first table, or nothing)
Raises(stage_name, written) ==
    /\ Enter(stage_name)
    /\ stages_run' = Append(stages_run, [stage |-> stage_name, ok |-> FALSE])
    /\ \E message \in Messages(stage_name) :
           pipeline_results' =
               on_exception([pipeline_results EXCEPT !.metrics_files = @ \o written],
                            message)
    /\ pipeline_step' = "failed"
    /\ UNCHANGED <<op, result>>

StageRaises == \E i \in 1..5 : Raises(Stages[i], <<>>)

\* fusion_df.to_csv raises after coverage_metrics.csv has been written
SecondExportRaises == Raises("export", <<"coverage_metrics.csv">>)

\* the closing lines are printed and results is returned
ReturnResults ==
    /\ pipeline_step \in {"export", "failed"}
    /\ pipeline_step' = "returned"
    /\ UNCHANGED <<pipeline_results, stages_run, series_a, series_b, op, result>>
    /\ UNCHANGED parser_vars
    /\ UNCHANGED batch_vars

NextPipeline ==
    \/ ParseStage
    \/ CoverageStage
    \/ FusionStage
    \/ DashboardsStage
    \/ ExportStage
    \/ StageRaises
    \/ SecondExportRaises
    \/ ReturnResults

SpecPipeline == InitPipeline /\ [][NextPipeline]_vars
---------------------------------------------------------------------------
(* Properties of the metric functions over one event list (SpecSeries) *)

RevisitOps == {"compute_revisit_times", "eez_compute_revisit_times"}

\* the least start time of a non-empty event list
LeastStart(ps) ==
    CHOOSE x \in {ps[i].unix_start : i \in 1..Len(ps)} :
        \A i \in 1..Len(ps) : RLe(x, ps[i].unix_start)

\* the events of ps in start order: the indices by ascending start time, equal
\* start times in list order
StartOrder(ps) ==
    CHOOSE f \in [1..Len(ps) -> 1..Len(ps)] :
        \A i, j \in 1..Len(ps) :
            i < j => \/ RLt(ps[f[i]].unix_start, ps[f[j]].unix_start)
                     \/ /\ ps[f[i]].unix_start = ps[f[j]].unix_start
                        /\ f[i] < f[j]

\* the gap after the i-th event in start order, and the positions with a
\* strictly positive gap
GapAfter(ps, i) ==
    RSub(ps[StartOrder(ps)[i + 1]].unix_start, ps[StartOrder(ps)[i]].unix_stop)

PositivePairs(ps) == {i \in 1..(Len(ps) - 1) : RLt(R(0), GapAfter(ps, i))}

\* seconds per unit of the revisit figures of the function called last
RevisitUnit == IF op = "eez_compute_revisit_times" THEN 60 ELSE 1

RECURSIVE TotalDuration(_, _)
TotalDuration(ps, idx) ==
    IF idx = {} THEN R(0)
    ELSE LET i == CHOOSE k \in idx : TRUE
         IN  RAdd(ps[i].duration_sec, TotalDuration(ps, idx \ {i}))

\* C1: detection latency of a non-empty event list is the least start time minus
\* the scenario start, clamped to be non-negative (in minutes for the EEZ
\* version), also when the earliest pass starts before the scenario epoch.
C1_DetectionLatencyClamped ==
    /\ (op = "compute_detection_latency" /\ series_a # <<>>) =>
           /\ RLe(R(0), result[1])
           /\ result[1] = RMax(R(0), RSub(LeastStart(series_a), R(SCENARIO_START)))
    /\ (op = "eez_compute_detection_latency" /\ series_a # <<>>) =>
           /\ RLe(R(0), result[1])
           /\ result[1] =
                  RDiv(RMax(R(0), RSub(LeastStart(series_a), R(SCENARIO_START))), R(60))

\* C2: the revisit result counts exactly the adjacent pairs, in start order,
\* whose next start is after the previous stop, and its min and max are the
\* least and the greatest of those gaps.
C2_RevisitAggregatesPositiveGaps ==
    op \in RevisitOps =>
        LET P == PositivePairs(series_a)
            r == result[1]
        IN  /\ "count" \in DOMAIN r
            /\ r.count = Cardinality(P)
            /\ P # {} =>
                   /\ \E i \in P : r.min = RDiv(GapAfter(series_a, i), R(RevisitUnit))
                   /\ \A i \in P : RLe(r.min, RDiv(GapAfter(series_a, i), R(RevisitUnit)))
                   /\ \E i \in P : r.max = RDiv(GapAfter(series_a, i), R(RevisitUnit))
                   /\ \A i \in P : RLe(RDiv(GapAfter(series_a, i), R(RevisitUnit)), r.max)

\* C3: with fewer than two events, or with no strictly positive gap, the revisit
\* result is infinity for min, mean and median and zero for max and count.
C3_RevisitNoInformation ==
    /\ (op \in RevisitOps /\ PositivePairs(series_a) = {}) =>
           LET r == result[1]
           IN  /\ r.min = Inf /\ r.mean = Inf /\ r.median = Inf
               /\ r.max = R(0)
               /\ "count" \in DOMAIN r
               /\ r.count = 0
    /\ (op = "compute_port_metrics" /\ series_a # <<>>
            /\ PositivePairs(series_a) = {}) =>
           result[1][1].Mean_Revisit_min = Inf

\* C6: coverage is 100 * sum(duration_sec) / 86400, and exceeds 100 when the
\* summed durations exceed the period.
ExpectedCoverage(ps) ==
    RDiv(RMul(R(100), TotalDuration(ps, 1..Len(ps))), R(86400))

C7_EmptyBucketSentinels ==
    series_a = <<>> =>
        /\ op \in {"compute_detection_latency", "eez_compute_detection_latency"} =>
               result[1] = Inf
        /\ op = "compute_coverage_percent" => result[1] = R(0)
        /\ op \in RevisitOps =>
               "count" \in DOMAIN result[1] /\ result[1].count = 0

---------------------------------------------------------------------------
(* Properties of the metric functions over two event lists (SpecPair) *)

\* the pairs (i, j) of passes, one of each list, that overlap in more than a point
OverlapStart(a, b) == IF RLt(a.unix_start, b.unix_start) THEN b.unix_start ELSE a.unix_start
OverlapStop(a, b) == IF RLt(a.unix_stop, b.unix_stop) THEN a.unix_stop ELSE b.unix_stop

OverlappingPairs(A, B) ==
    {p \in (1..Len(A)) \X (1..Len(B)) :
        RLt(OverlapStart(A[p[1]], B[p[2]]), OverlapStop(A[p[1]], B[p[2]]))}

OverlapLength(A, B, p) ==
    RSub(OverlapStop(A[p[1]], B[p[2]]), OverlapStart(A[p[1]], B[p[2]]))

RECURSIVE TotalOverlap(_, _, _)
TotalOverlap(A, B, pairs) ==
    IF pairs = {} THEN R(0)
    ELSE LET p == CHOOSE q \in pairs : TRUE
         IN  RAdd(OverlapLength(A, B, p), TotalOverlap(A, B, pairs \ {p}))

\* C4: there is one fusion window per pair of passes, one of each series, with
\* max(starts) < min(stops), of length min(stops) - max(starts); passes that only
\* touch or are disjoint give none; [0,100] and [50,150] give one window of 50.
C4_FusionWindowsPerOverlappingPair ==
    op = "compute_fusion_windows" =>
        LET W == OverlappingPairs(series_a, series_b)
            r == result[1]
        IN  /\ r.count = Cardinality(W)
            /\ r.total_duration = TotalOverlap(series_a, series_b, W)
            /\ W # {} =>
                   /\ \E p \in W : r.max_duration = OverlapLength(series_a, series_b, p)
                   /\ \A p \in W : RLe(OverlapLength(series_a, series_b, p), r.max_duration)
            /\ (series_a = <<Event(0, 100)>> /\ series_b = <<Event(50, 150)>>) =>
                   r.count = 1 /\ r.total_duration = R(50)

\* [0,100] overlaps [50,150] by 50 s while [0,50] only touches it
C4_Witness ==
    /\ op = "compute_fusion_windows"
    /\ series_a = <<Event(0, 100), Event(0, 50)>>
    /\ series_b = <<Event(50, 150)>>
    /\ result[1].count = 1
    /\ result[1].total_duration = R(50)

\* the ship passes that have a ground-station pass starting at or after their
\* stop, and the wait for the earliest such pass
Deliverable(ship, gs) ==
    {i \in 1..Len(ship) : \E j \in 1..Len(gs) : RLe(ship[i].unix_stop, gs[j].unix_start)}

FirstRelayStart(ship, gs, i) ==
    CHOOSE t \in {gs[j].unix_start : j \in 1..Len(gs)} :
        /\ RLe(ship[i].unix_stop, t)
        /\ \A j \in 1..Len(gs) :
               RLe(ship[i].unix_stop, gs[j].unix_start) => RLe(t, gs[j].unix_start)

Wait(ship, gs, i) == RSub(FirstRelayStart(ship, gs, i), ship[i].unix_stop)

RECURSIVE TotalWait(_, _, _)
TotalWait(ship, gs, idx) ==
    IF idx = {} THEN R(0)
    ELSE LET i == CHOOSE k \in idx : TRUE
         IN  RAdd(Wait(ship, gs, i), TotalWait(ship, gs, idx \ {i}))

\* min, mean and max of the result are those of the waits of the deliverable
\* ship passes, and none of them is negative
DeliveryStatistics(r, ship, gs) ==
    LET D == Deliverable(ship, gs)
    IN  /\ \E i \in D : r.min = Wait(ship, gs, i)
        /\ \A i \in D : RLe(r.min, Wait(ship, gs, i))
        /\ \E i \in D : r.max = Wait(ship, gs, i)
        /\ \A i \in D : RLe(Wait(ship, gs, i), r.max)
        /\ r.mean = RDiv(TotalWait(ship, gs, D), R(Cardinality(D)))
        /\ RLe(R(0), r.min)

\* C5 as stated: the delivery result counts the ship passes that have a
\* ground-station pass starting at or after their stop, each contributing the
\* wait for the earliest such pass, and no wait is negative.
C5_DeliveryCountsEveryInput ==
    op = "compute_delivery_latency" =>
        LET D == Deliverable(series_a, series_b)
            r == result[1]
        IN  /\ "count" \in DOMAIN r
            /\ r.count = Cardinality(D)
            /\ D # {} => DeliveryStatistics(r, series_a, series_b)

\* C5 as amended: when at least one ship pass is deliverable, count is the number
\* of deliverable ship passes and min, mean and max are those of their waits for
\* the earliest ground-station pass, none negative; when none is deliverable the
\* result is the infinity-filled default, which has no count field.
C5_DeliveryNearestRelay ==
    op = "compute_delivery_latency" =>
        LET D == Deliverable(series_a, series_b)
            r == result[1]
        IN  IF D = {}
            THEN r = [min |-> Inf, mean |-> Inf, max |-> Inf]
            ELSE /\ "count" \in DOMAIN r
                 /\ r.count = Cardinality(D)
                 /\ DeliveryStatistics(r, series_a, series_b)

\* one ship pass is delivered by the later of two ground-station passes, the
\* other ship pass ends after every ground-station pass has started
C5_Witness ==
    /\ op = "compute_delivery_latency"
    /\ series_a = <<Event(50, 150), Event(0, 50)>>
    /\ series_b = <<Event(100, 150), Event(50, 100)>>
    /\ result[1] = [min |-> R(0), mean |-> R(0), max |-> R(0), count |-> 1]

---------------------------------------------------------------------------
(* Properties of the access-record parser (SpecParse) *)

\* C8: every emitted event stops after it starts, and its duration_sec is
\* stop - start within 0.01 s; a row violating either is never emitted.
C8_EmittedEventsConsistent ==
    \A i \in 1..Len(passes) :
        LET p == passes[i]
            excess == RSub(p.duration_sec, RSub(p.unix_stop, p.unix_start))
        IN  /\ RLt(p.unix_start, p.unix_stop)
            /\ RLe(Rat(-1, 100), excess)
            /\ RLe(excess, Rat(1, 100))

\* the number of header rows among the first n rows of a file
HeadersSeen(file, n) ==
    Cardinality({k \in 1..n :
        ~is_short(clean_row(file[k])) /\ is_header(clean_row(file[k]))})

\* C9: the satellite_id of every emitted event is the number of header rows seen
\* in this file before the event's row, minus one, and is never negative; the
\* counter depends on the rows of the current file only.
C9_SatelliteIdZeroBased ==
    /\ \A i \in 1..Len(passes) :
           /\ passes[i].satellite_id = HeadersSeen(rows, emit_rows[i] - 1) - 1
           /\ passes[i].satellite_id >= 0
    /\ pc = "scan" => satellite_id = HeadersSeen(rows, row_num) - 1

\* a malformed row: fewer than four non-empty cells, or a row that is neither a
\* header nor a statistics row and whose access id is no integer, or whose
\* duration or one of whose timestamps does not parse
Malformed(raw) ==
    LET row == clean_row(raw)
    IN  \/ Len(row) < 4
        \/ /\ ~(row[1] = Txt("Access") /\ contains_start_time(row[2]))
           /\ ~startswith_statistics(row[1])
           /\ \/ py_int(row[1]) = <<>>
              \/ strptime(row[2]) = <<>>
              \/ strptime(row[3]) = <<>>
              \/ py_float(row[4]) = <<>>

RemoveAt(file, i) == SubSeq(file, 1, i - 1) \o SubSeq(file, i + 1, Len(file))

\* C10: when the loop has consumed the whole file, the emitted events, with their
\* satellite_id tags, are those of the same file without any one malformed row.
C10_MalformedRowTolerance ==
    (pc = "scan" /\ row_num = Len(rows)) =>
        \A i \in 1..Len(rows) :
            Malformed(rows[i]) => passes = parse_stk_csv(RemoveAt(rows, i), tz_offset)

\* a malformed row stands between a header and a data row that was emitted
C10_Witness ==
    /\ pc = "scan"
    /\ row_num = Len(rows)
    /\ \E i \in 2..(Len(rows) - 1) :
           /\ Malformed(rows[i])
           /\ HeadersSeen(rows, i - 1) > 0
           /\ \E k \in 1..Len(emit_rows) : emit_rows[k] > i

---------------------------------------------------------------------------
(* Properties of the parsing scripts and of the metrics stage (SpecBatch) *)

\* the naming rule of each family: a target, a sensor token where the family
\* has sensors, and a constellation token followed by its size
HasSensorToken(name) == contains(name, "_SAR_") \/ contains(name, "_Optical_")

WellNamed(fam, name) ==
    IF fam = "stk" THEN name \in DOMAIN mapping
    ELSE IF fam = "ports"
    THEN /\ re_search("Port_", WordChars, name) # <<>>
         /\ HasSensorToken(name)
         /\ re_search("Walker", Digits, name) # <<>>
    ELSE /\ split_first(replace(name, "EEZ_", ""), "-") # ""
         /\ re_search("Constellation", Digits, name) # <<>>

\* C11: a file whose name does not follow its family's naming rule is
\* reported and skipped: no bucket of the Result Store ever holds its events,
\* and the loop goes on to the next file.
C11_UnrecognizedNamesSkipped ==
    stage # "idle" =>
        /\ \A key \in DOMAIN bucket_file : WellNamed(family, bucket_file[key])
        /\ \A i \in 1..file_num :
               ~WellNamed(family, csv_files[i]) => csv_files[i] \in reported

\* C12: the constellation size of every stored bucket is 6, 12 or 32.
C12_ConstellationSizeDomain ==
    \A key \in DOMAIN results : key[Len(key)] \in {6, 12, 32}

\* C13: a file that cannot be read aborts only that file: the script never
\* stops before the remaining files are parsed and the store is saved.
C13_ParseFailureAbortsOnlyThatFile ==
    stage # "aborted"

\* the requested combinations whose bucket is absent from the loaded store
AbsentBucket(data, path, const) == Append(path, str(const)) \notin DOMAIN data

\* C14: the metrics stage never raises on a missing or empty bucket: it
\* completes for every requested combination, and a combination whose bucket
\* is absent from the store is reported with an infinite latency and zero
\* counts.
C14_MetricsToleratesAbsentBuckets ==
    /\ stage # "metrics_failed"
    /\ stage = "metrics_done" /\ family = "stk" =>
           LET data == json_load(saved_json[1])
           IN  \A ship \in {"Ship1", "Ship2", "Ship3"}, const \in {6, 12, 32} :
                   /\ <<ship, const>> \in DOMAIN metric_rows
                   /\ AbsentBucket(data, <<ship, "SAR">>, const) =>
                          /\ metric_rows[<<ship, const>>].sar_latency = Inf
                          /\ metric_rows[<<ship, const>>].windows.count = 0
    /\ stage = "metrics_done" /\ family = "eez_sar" =>
           LET data == json_load(saved_json[1])
           IN  \A k \in DOMAIN data, const \in {6, 12, 32} :
                   /\ <<k[1], const>> \in DOMAIN metric_rows
                   /\ AbsentBucket(data, <<k[1]>>, const) =>
                          /\ metric_rows[<<k[1], const>>].detection_latency_min = Inf
                          /\ metric_rows[<<k[1], const>>].num_passes = 0
                          /\ metric_rows[<<k[1], const>>].num_gaps = 0

C16_EveryConstellationPresent ==
    stage = "saved" =>
        \A key \in DOMAIN results, const \in {6, 12, 32} :
            [key EXCEPT ![Len(key)] = const] \in DOMAIN results

---------------------------------------------------------------------------
(* Algebraic properties of the metric functions (SpecSeries, SpecPair) *)

\* the rearrangements of an event list
Rearrangements(ps) ==
    {[i \in 1..Len(ps) |-> ps[f[i]]] :
        f \in {g \in [1..Len(ps) -> 1..Len(ps)] :
                  \A i, j \in 1..Len(ps) : g[i] = g[j] => i = j}}

RevisitOf(name, ps) ==
    IF name = "compute_revisit_times" THEN compute_revisit_times(ps)
    ELSE eez_compute_revisit_times(ps)

\* C17: the revisit-time distribution does not depend on the order of the
\* input: every rearrangement of the event list yields the same min, mean,
\* median, max and count.
C17_RevisitOrderInvariant ==
    op \in RevisitOps =>
        \A shuffled \in Rearrangements(series_a) : RevisitOf(op, shuffled) = result[1]

DetectionOps == {"compute_detection_latency", "eez_compute_detection_latency"}

DetectionOf(name, ps) ==
    IF name = "compute_detection_latency" THEN compute_detection_latency(ps)
    ELSE eez_compute_detection_latency(ps)

\* events that start before every event of the list
EarlierEvents(ps) ==
    {e \in SeriesEvents : \A i \in 1..Len(ps) : RLt(e.unix_start, ps[i].unix_start)}

InsertAt(ps, pos, e) == SubSeq(ps, 1, pos) \o <<e>> \o SubSeq(ps, pos + 1, Len(ps))

\* C18: adding, anywhere in the list, an event that starts before every
\* event of the list never increases the detection latency.
C18_DetectionLatencyMonotone ==
    op \in DetectionOps =>
        \A e \in EarlierEvents(series_a), pos \in 0..Len(series_a) :
            RLe(DetectionOf(op, InsertAt(series_a, pos, e)), result[1])

\* an earlier event is added to a list that has events, and the latency drops
C18_Witness ==
    /\ op \in DetectionOps
    /\ series_a # <<>>
    /\ \E e \in EarlierEvents(series_a) :
           RLt(DetectionOf(op, Append(series_a, e)), result[1])

Doubled(ps) ==
    [i \in 1..Len(ps) |-> [ps[i] EXCEPT !.duration_sec = RMul(R(2), @)]]

\* C20: doubling the duration of every event doubles the reported coverage
\* percentage.
C20_CoverageScalesLinearly ==
    /\ op = "compute_coverage_percent" =>
           compute_coverage_percent(Doubled(series_a)) = RMul(R(2), result[1])
    /\ op = "compute_port_metrics" /\ result[1] # <<>> =>
           compute_port_metrics(Doubled(series_a))[1].Coverage_Percent
               = RMul(R(2), result[1][1].Coverage_Percent)
    /\ op = "compute_coverage_metrics" /\ result[1] # <<>> =>
           compute_coverage_metrics(Doubled(series_a))[1].coverage_pct
               = RMul(R(2), result[1][1].coverage_pct)

\* C19: fusion windows are symmetric: exchanging the two series yields the
\* same overlaps, up to their order, and so the same count, total, mean and
\* maximum duration.
C19_FusionWindowsSymmetric ==
    op = "compute_fusion_windows" =>
        /\ RSorted(fusion_overlaps(sorted(series_a, "unix_start"),
                                   sorted(series_b, "unix_start"), 1, 1))
             = RSorted(fusion_overlaps(sorted(series_b, "unix_start"),
                                       sorted(series_a, "unix_start"), 1, 1))
        /\ compute_fusion_windows(series_b, series_a) = result[1]

\* two different series with at least two overlaps of different lengths
C19_Witness ==
    /\ op = "compute_fusion_windows"
    /\ series_a # series_b
    /\ result[1].count >= 2
    /\ result[1].max_duration # result[1].mean_duration

---------------------------------------------------------------------------
(* Worked examples (SpecScenario) *)

\* the passes 00:00:00-00:10:00 and 01:00:00-01:05:00, in either order
TwoPassScenario(ps) ==
    /\ Len(ps) = 2
    /\ {ps[1], ps[2]} = {Event(0, 600), Event(3600, 3900)}

\* C21: for the passes 00:00:00-00:10:00 and 01:00:00-01:05:00 the coverage is
\* (600 + 300) / 86400 * 100 and the revisit distribution is min = mean =
\* median = max = 50 with count 1: the gap of 3000 s is reported as 50 minutes.
C21_TwoPassScenario ==
    TwoPassScenario(series_a) =>
        /\ op = "compute_coverage_percent" => result[1] = Rat(900 * 100, 86400)
        /\ op \in RevisitOps =>
               result[1] = [min |-> R(50), mean |-> R(50), median |-> R(50),
                            max |-> R(50), count |-> 1]

---------------------------------------------------------------------------
(* Further properties of the metric functions (SpecPair, SpecSeries) *)

\* C22: when no ship pass has a ground-station pass starting at or after its
\* stop, in particular when either list is empty, the delivery latency is the
\* default whose min, mean and max are all +infinity.
C22_DeliveryDefaultWhenNoRelay ==
    op = "compute_delivery_latency" /\ Deliverable(series_a, series_b) = {} =>
        /\ result # <<>>
        /\ result[1] = [min |-> Inf, mean |-> Inf, max |-> Inf]

\* both lists have passes, and every ground-station pass starts before the
\* ship passes end
C22_Witness ==
    /\ op = "compute_delivery_latency"
    /\ Len(series_a) = 2
    /\ Len(series_b) = 2
    /\ Deliverable(series_a, series_b) = {}
    /\ result[1].min = Inf

---------------------------------------------------------------------------
(* Properties of the closing summary and of the buckets (SpecBatch)        *)

\* C23: when a parsing batch has finished, its closing summary reports a count
\* of processed files and a count of skipped files, and the two counts add up
\* to the number of files the batch found.
C23_SummaryAccountsForEveryFile ==
    stage = "saved" =>
        /\ summary # <<>>
        /\ "files" \in DOMAIN summary[1]
        /\ "skipped" \in DOMAIN summary[1]
        /\ summary[1].files + summary[1].skipped = Len(csv_files)

---------------------------------------------------------------------------
(* Shape of the revisit record (SpecSeries)                                *)

RevisitFields == {"min", "mean", "median", "max", "count"}

\* C24: every result of a revisit-time computation carries the five fields
\* min, mean, median, max and count, whichever branch produced it.
C24_RevisitResultHasFiveFields ==
    op \in RevisitOps => DOMAIN result[1] = RevisitFields

---------------------------------------------------------------------------
(* Order of emission and the block counter (SpecParse)                     *)

\* a header row as the prose describes it: first cell 'Access', second cell
\* containing 'Start Time'
NamedHeader(raw) ==
    LET row == clean_row(raw)
    IN  Len(row) >= 2 /\ row[1] = Txt("Access") /\ contains_start_time(row[2])

\* a header row that keeps at least four cells after cleaning
FullHeader(raw) == NamedHeader(raw) /\ Len(clean_row(raw)) >= 4

\* one row is consumed: events come out in row order, tagged with the counter as
\* it stood, and the counter moves only as `counts` rows allow, one step each
RowStep(counts(_)) ==
    (pc = "scan" /\ row_num' = row_num + 1) =>
        /\ satellite_id' >= satellite_id
        /\ satellite_id' # satellite_id => counts(rows[row_num + 1])
        /\ counts(rows[row_num + 1]) => satellite_id' = satellite_id + 1
        /\ SubSeq(passes', 1, Len(passes)) = passes
        /\ Len(passes') <= Len(passes) + 1
        /\ \A k \in (Len(passes) + 1)..Len(passes') :
               /\ emit_rows'[k] = row_num + 1
               /\ passes'[k].satellite_id = satellite_id
        /\ \A i, j \in 1..Len(passes') :
               i < j => /\ emit_rows'[i] < emit_rows'[j]
                        /\ passes'[i].satellite_id <= passes'[j].satellite_id

\* C25 as stated: events are emitted in row order, satellite_id never decreases
\* along them, and the counter moves only at a row whose first cell is 'Access'
\* and whose second cell contains 'Start Time', by one at every such row.
C25_CounterStepsAtEveryNamedHeader == [][RowStep(NamedHeader)]_vars

\* C25, amended: the same, for the header rows that keep at least four cells
\* after cleaning; a shorter 'Access' row is skipped like any short row.
C25_CounterStepsAtFullHeaders == [][RowStep(FullHeader)]_vars

\* a file was read to its end in which a short 'Access' row and a full header
\* both precede an event, which carries satellite_id 0
C25_Witness ==
    /\ pc = "scan"
    /\ row_num = Len(rows)
    /\ \E k \in 1..Len(passes) :
           /\ passes[k].satellite_id = 0
           /\ \E i, j \in 1..(emit_rows[k] - 1) :
                  /\ NamedHeader(rows[i]) /\ ~FullHeader(rows[i])
                  /\ FullHeader(rows[j])

\* the first cleaned cell of the row starts with one of the statistics labels
StatisticsLabelled(raw) ==
    clean_row(raw) # <<>> /\ startswith_statistics(clean_row(raw)[1])

\* C26: consuming a row whose first cleaned cell starts with a statistics label
\* adds no event and leaves the satellite counter as it was.
C26_StatisticsRowsAreInert ==
    [][(pc = "scan" /\ row_num' = row_num + 1 /\ StatisticsLabelled(rows[row_num + 1]))
           => (passes' = passes /\ satellite_id' = satellite_id)]_vars

\* a file was read to its end in which a statistics row, whose other cells would
\* parse as a pass, stands between a header and an emitted event
C26_Witness ==
    /\ pc = "scan"
    /\ row_num = Len(rows)
    /\ \E i \in 2..(Len(rows) - 1) :
           /\ StatisticsLabelled(rows[i])
           /\ parse_data_row(Tail(clean_row(rows[i])), 0, tz_offset) # <<>>
           /\ FullHeader(rows[i - 1])
           /\ \E k \in 1..Len(passes) : emit_rows[k] > i /\ passes[k].satellite_id = 0

---------------------------------------------------------------------------
(* Properties of the ship-transit script (SpecShipEez) and of the buckets  *)
(* of all parsing scripts (SpecParsers)                                    *)

\* the ships a ship-transit file name encodes: the numbers between 'Ship' and
\* '_Access', separated by underscores
EncodedShips(name) ==
    {n \in 1..9 : \/ contains(name, "Ship" \o str(n) \o "_")
                  \/ contains(name, "_" \o str(n) \o "_Access")}

\* the entries of the log that file a bucket under key after entry i
LaterEntries(i, key) ==
    {j \in (i + 1)..Len(parse_log) :
        \E k \in 1..Len(parse_log[j].keys) : parse_log[j].keys[k] = key}

\* C27: a file whose name encodes several ships is parsed once; its events are
\* filed under one key per encoded ship, and each of these buckets holds those
\* same events until a later file of the batch replaces it.
C27_SharedTransitFiledPerShip ==
    family = "ship_eez" =>
        \A i \in 1..Len(parse_log) :
            LET entry == parse_log[i]
                ships == EncodedShips(entry.file)
            IN  Cardinality(ships) >= 2 =>
                    /\ \A j \in 1..Len(parse_log) : parse_log[j].file = entry.file => j = i
                    /\ Len(entry.keys) = Cardinality(ships)
                    /\ {entry.keys[k][2] : k \in 1..Len(entry.keys)} =
                           {"Ship" \o str(n) : n \in ships}
                    /\ \A k \in 1..Len(entry.keys) :
                           LaterEntries(i, entry.keys[k]) = {} =>
                               results[entry.keys[k]] = entry.passes

\* the batch has saved its results; the file of ships 1 and 3 held two passes,
\* and both of its buckets hold them
C27_Witness ==
    /\ family = "ship_eez"
    /\ stage = "saved"
    /\ \E i \in 1..Len(parse_log) :
           /\ parse_log[i].file = "EEZ_West-Ship1_3_Access.csv"
           /\ Len(parse_log[i].passes) = 2
           /\ LaterEntries(i, <<"West", "Ship1">>) = {}
           /\ results[<<"West", "Ship1">>] = parse_log[i].passes
           /\ results[<<"West", "Ship3">>] = parse_log[i].passes

\* the entries of the log that filed a bucket under key, in the order of processing
EntriesFor(key) ==
    {i \in 1..Len(parse_log) :
        \E k \in 1..Len(parse_log[i].keys) : parse_log[i].keys[k] = key}

\* C30: every bucket holds the events of one file, the last of the files
\* processed so far that was filed under its key; files are processed in
\* sorted order of their names.
C30_BucketHoldsLastFileOnly ==
    /\ \A key \in DOMAIN results :
           /\ EntriesFor(key) # {}
           /\ results[key] = parse_log[Greatest(EntriesFor(key))].passes
           /\ bucket_file[key] = parse_log[Greatest(EntriesFor(key))].file
    /\ \A i \in 1..Len(parse_log) :
           /\ parse_log[i].file = csv_files[Least({n \in 1..Len(csv_files) :
                                                      csv_files[n] = parse_log[i].file})]
           /\ \A j \in 1..Len(parse_log) :
                  i < j => \E m, n \in 1..Len(csv_files) :
                               /\ m < n
                               /\ csv_files[m] = parse_log[i].file
                               /\ csv_files[n] = parse_log[j].file

\* two files of a saved batch were filed under one key, the earlier with two
\* passes and the later with none, and the bucket is empty
C30_Witness ==
    /\ stage = "saved"
    /\ \E key \in DOMAIN results :
           \E i, j \in EntriesFor(key) :
               /\ i < j
               /\ j = Greatest(EntriesFor(key))
               /\ Len(parse_log[i].passes) = 2
               /\ parse_log[j].passes = <<>>
               /\ results[key] = <<>>

---------------------------------------------------------------------------
(* Frame of the metric functions (SpecScenario)                            *)

InOrder(ps, key) == sorted(ps, key) = ps

---------------------------------------------------------------------------
(* Properties of run_analysis_pipeline (SpecPipeline)                      *)

StageFailed == \E i \in 1..Len(stages_run) : ~stages_run[i].ok

\* C29: the stages are entered in the order parse, coverage, fusion,
\* dashboards, export; no stage is entered after one that failed; and the
\* returned results have status 'error' with a non-empty errors list when a
\* stage failed, status 'success' exactly when errors is empty, and a non-empty
\* metrics_files only if the four stages before export all succeeded.
C29_PipelineStagesInOrder ==
    /\ Len(stages_run) <= 5
    /\ \A i \in 1..Len(stages_run) :
           /\ stages_run[i].stage = Stages[i]
           /\ ~stages_run[i].ok => i = Len(stages_run)
    /\ pipeline_step = "returned" =>
           /\ StageFailed => /\ pipeline_results.status = "error"
                             /\ pipeline_results.errors # <<>>
           /\ pipeline_results.status \in {"success", "error"}
           /\ pipeline_results.status = "success" <=> pipeline_results.errors = <<>>
           /\ pipeline_results.metrics_files # <<>> =>
                  /\ Len(stages_run) = 5
                  /\ \A i \in 1..4 : stages_run[i].ok

\* the pipeline has returned after one of its stages raised, and not the first
C29_Witness ==
    /\ pipeline_step = "returned"
    /\ StageFailed
    /\ Len(stages_run) >= 2
    /\ pipeline_results.access_windows_loaded > 0

====
